---- MODULE Spec2Model ----
(***************************************************************************)
(* A model of the style/class composer of the fasthtml-styling-experiments *)
(* scripts: dict_to_style and merge_styles (04_style_dictionaries.py), the *)
(* CSSGenerator accumulator (06_css_class_generator.py) and the GET        *)
(* handler that derives custom_card from the module-level CARD_STYLE.      *)
(*                                                                         *)
(* A Python str is a sequence of pieces (each piece a string); Text(s) is  *)
(* the str itself. Property names, values and class names are single       *)
(* pieces; the punctuation the code writes is one piece per character.     *)
(* A Python dict is the sequence of its <<key, value>> items in insertion  *)
(* order, keys distinct. Objects live in a heap: a function from object    *)
(* ids to dicts, so that aliasing and in-place updates can be told apart   *)
(* from copies.                                                            *)
(***************************************************************************)
EXTENDS Integers, Sequences, FiniteSets, TLC

VARIABLES
    heap,       \* object id -> dict contents (04_style_dictionaries.py)
    source0,    \* ghost: the heap as it was after module import / input binding
    inputs,     \* ids of the caller's declarations D1..Dn
    lastCall,   \* the last call made: its name and the merge_styles calls in it
    results,    \* ids of the dicts the last call returned to the caller
    out,        \* the str the last call returned, if it was dict_to_style
    response,   \* style strings of the last GET / response, in evaluation order
    classes,    \* CSSGenerator.classes: name -> styles (06_css_class_generator.py)
    log,        \* ghost: the add_class calls that registered a rule set, in order
    ops,        \* number of registering calls made on the generator
    lastOp,     \* the last method called on the generator and how it ended
    css,        \* the str the last to_css call returned
    prevCss,    \* the str the to_css call right before it returned
    consecutive,\* whether the last two calls were both to_css
    styleTag,   \* the Style component the last get_style_tag call returned
    modulePc,   \* 06_css_class_generator.py: the module-level statement to run next
    requests,   \* GET / requests of the app: how far each is and what it reported
    text,       \* pages: the str a page function is given (a title, a message)
    element,    \* pages: the element the last page function built
    xml,        \* pages: the markup text the element serialized to
    pageCall,   \* pages: the page function last called and how it ended
    plots,      \* pages: the plot fragments the last page function created, in order
    mainPc,     \* capture_screenshots.py: where main is
    idx,        \* the place in EXPERIMENTS of the experiment main is at
    shotPc,     \* where the running capture_screenshot call is
    servers,    \* the server process of each experiment: none, running or exited
    signals,    \* the process methods the running call has called, in order
    timedOut,   \* whether process.wait(timeout=5) raised TimeoutExpired in this call
    browser,    \* the browser of the running call: none, open or closed
    pending,    \* how the running call ends once its finally block is through
    success_count,      \* main: success_count
    failed_experiments, \* main: failed_experiments
    files       \* the screenshot files written

styleVars == <<heap, source0, inputs, results, lastCall, out, response>>

genVars == <<classes, log, ops, lastOp, css, prevCss, consecutive, styleTag>>

appVars == <<modulePc, requests>>

\* the variables of the other programs, which neither the style functions
\* nor a bare CSSGenerator touch
pageVars == <<text, element, xml, pageCall, plots>>

shotVars == <<mainPc, idx, shotPc, servers, signals, timedOut, browser, pending,
              success_count, failed_experiments, files>>

otherVars == <<appVars, pageVars, shotVars>>

vars == <<styleVars, genVars, otherVars>>

---------------------------------------------------------------------------
(* Bounds of the model *)

\* total number of items over the caller's declarations D1..Dn
MaxTotal == 3
\* number of declarations a caller passes (n = 0 .. MaxArgs)
MaxArgs == 3
\* number of registering calls (add_class and the generate methods) per generator
MaxOps == 2

Props == {"color", "font-size"}
Vals == {"red", "16px"}

---------------------------------------------------------------------------
(* Python str and dict primitives *)

RECURSIVE Text(_)
Text(s) == IF s = <<>> THEN "" ELSE Head(s) \o Text(Tail(s))

\* the concatenation of parts[lo..hi], sep in front of every part but the first
RECURSIVE join_range(_, _, _, _)
join_range(sep, parts, lo, hi) ==
    IF lo > hi THEN <<>>
    ELSE IF lo = hi THEN (IF lo = 1 THEN parts[lo] ELSE sep \o parts[lo])
    ELSE LET mid == (lo + hi) \div 2
         IN join_range(sep, parts, lo, mid) \o join_range(sep, parts, mid + 1, hi)

\* sep.join(parts)
join(sep, parts) == join_range(sep, parts, 1, Len(parts))

keys(d) == {d[i][1] : i \in DOMAIN d}

index(d, k) == CHOOSE i \in DOMAIN d : d[i][1] = k

get(d, k) == d[index(d, k)][2]

\* mutant: an existing key keeps its old value
setitem_keep_first(d, k, v) ==
    IF k \in keys(d) THEN d ELSE Append(d, <<k, v>>)

\* mutant: an existing key is removed and added again at the end
setitem_move_to_end(d, k, v) ==
    Append(SelectSeq(d, LAMBDA e : e[1] # k), <<k, v>>)

\* d[k] = v: an existing key keeps its position and takes the new value,
\* a new key is appended
setitem(d, k, v) ==
    IF k \in keys(d) THEN [d EXCEPT ![index(d, k)] = <<k, v>>]
    ELSE Append(d, <<k, v>>)

\* result.update(d): setitem for each item of d in d's order
RECURSIVE update(_, _)
update(result, d) ==
    IF d = <<>> THEN result
    ELSE update(setitem(result, Head(d)[1], Head(d)[2]), Tail(d))

\* {**a, **b}: a dict display with two unpackings, a's items then b's
dict_display(a, b) == update(update(<<>>, a), b)

\* all dicts over Props and Vals with exactly n items
RECURSIVE DictsOfLen(_)
DictsOfLen(n) ==
    IF n = 0 THEN {<<>>}
    ELSE {Append(t[1], <<t[2], t[3]>>) :
            t \in {u \in DictsOfLen(n - 1) \X Props \X Vals : u[2] \notin keys(u[1])}}

Dicts == UNION {DictsOfLen(n) : n \in 0..Cardinality(Props)}

\* the argument lists D1..Dn a caller can pass, n = 0 .. MaxArgs
RECURSIVE ArgLists(_, _)
ArgLists(n, room) ==
    IF n = 0 THEN {<<>>}
    ELSE {<<>>} \cup
         {<<t[1]>> \o t[2] :
            t \in UNION {{d} \X ArgLists(n - 1, room - Len(d)) :
                            d \in {e \in Dicts : Len(e) <= room}}}

---------------------------------------------------------------------------
(* The heap *)

\* the id a new object gets: the lowest free one
new_id(h) ==
    LET used == DOMAIN h
    IN CHOOSE i \in 1..(Cardinality(used) + 1) :
           i \notin used /\ \A j \in 1..(i - 1) : j \in used

\* a dict literal or dict(): a new object
alloc(h, d) ==
    LET id == new_id(h)
    IN [heap |-> [i \in DOMAIN h \cup {id} |-> IF i = id THEN d ELSE h[i]], ret |-> id]

\* objects no variable refers to any more are freed
release(h, live) == [i \in DOMAIN h \cap live |-> h[i]]

---------------------------------------------------------------------------
(* 04_style_dictionaries.py: the module-level style dictionaries *)

BUTTON_STYLES_primary ==
    << <<"background-color", "#3b82f6">>, <<"color", "white">>,
       <<"padding", "12px 24px">>, <<"border", "none">>,
       <<"border-radius", "8px">>, <<"font-weight", "600">>,
       <<"cursor", "pointer">>, <<"transition", "all 0.3s ease">> >>

BUTTON_STYLES_secondary ==
    << <<"background-color", "#6b7280">>, <<"color", "white">>,
       <<"padding", "12px 24px">>, <<"border", "none">>,
       <<"border-radius", "8px">>, <<"font-weight", "600">>,
       <<"cursor", "pointer">> >>

BUTTON_STYLES_success ==
    << <<"background-color", "#10b981">>, <<"color", "white">>,
       <<"padding", "12px 24px">>, <<"border", "none">>,
       <<"border-radius", "8px">>, <<"font-weight", "600">>,
       <<"cursor", "pointer">> >>

BUTTON_STYLES_danger ==
    << <<"background-color", "#ef4444">>, <<"color", "white">>,
       <<"padding", "12px 24px">>, <<"border", "none">>,
       <<"border-radius", "8px">>, <<"font-weight", "600">>,
       <<"cursor", "pointer">> >>

CARD_STYLE ==
    << <<"background", "white">>, <<"border", "1px solid #e5e7eb">>,
       <<"border-radius", "16px">>, <<"padding", "30px">>,
       <<"margin", "20px auto">>, <<"max-width", "700px">>,
       <<"box-shadow", "0 4px 6px rgba(0,0,0,0.1)">> >>

HEADING_STYLES_h1 ==
    << <<"color", "#1f2937">>, <<"font-size", "36px">>,
       <<"font-weight", "bold">>, <<"margin-bottom", "20px">>,
       <<"text-align", "center">> >>

HEADING_STYLES_h2 ==
    << <<"color", "#3b82f6">>, <<"font-size", "28px">>,
       <<"font-weight", "600">>, <<"margin-top", "30px">>,
       <<"margin-bottom", "15px">>, <<"border-bottom", "2px solid #dbeafe">>,
       <<"padding-bottom", "10px">> >>

ALERT_STYLES_info ==
    << <<"background-color", "#dbeafe">>, <<"border-left", "4px solid #3b82f6">>,
       <<"color", "#1e40af">>, <<"padding", "15px">>,
       <<"border-radius", "4px">>, <<"margin", "15px 0">> >>

ALERT_STYLES_success ==
    << <<"background-color", "#d1fae5">>, <<"border-left", "4px solid #10b981">>,
       <<"color", "#065f46">>, <<"padding", "15px">>,
       <<"border-radius", "4px">>, <<"margin", "15px 0">> >>

ALERT_STYLES_warning ==
    << <<"background-color", "#fef3c7">>, <<"border-left", "4px solid #f59e0b">>,
       <<"color", "#92400e">>, <<"padding", "15px">>,
       <<"border-radius", "4px">>, <<"margin", "15px 0">> >>

\* the module's dict objects in creation order: an object's id is its place here
ModuleObjects ==
    << [name |-> "BUTTON_STYLES.primary", value |-> BUTTON_STYLES_primary],
       [name |-> "BUTTON_STYLES.secondary", value |-> BUTTON_STYLES_secondary],
       [name |-> "BUTTON_STYLES.success", value |-> BUTTON_STYLES_success],
       [name |-> "BUTTON_STYLES.danger", value |-> BUTTON_STYLES_danger],
       [name |-> "CARD_STYLE", value |-> CARD_STYLE],
       [name |-> "HEADING_STYLES.h1", value |-> HEADING_STYLES_h1],
       [name |-> "HEADING_STYLES.h2", value |-> HEADING_STYLES_h2],
       [name |-> "ALERT_STYLES.info", value |-> ALERT_STYLES_info],
       [name |-> "ALERT_STYLES.success", value |-> ALERT_STYLES_success],
       [name |-> "ALERT_STYLES.warning", value |-> ALERT_STYLES_warning] >>

\* the id of a module-level dict
addr(name) == CHOOSE i \in DOMAIN ModuleObjects : ModuleObjects[i].name = name

ModuleHeap == [i \in DOMAIN ModuleObjects |-> ModuleObjects[i].value]

---------------------------------------------------------------------------
(* 04_style_dictionaries.py: dict_to_style and merge_styles *)

\* f"{key}: {value}"
item_str(key, value) == <<key, ":", " ", value>>

\* mutant: the last declaration gets no semicolon
dict_to_style_no_final_semicolon(style_dict) ==
    join(<<";", " ">>,
         [i \in DOMAIN style_dict |-> item_str(style_dict[i][1], style_dict[i][2])])

\* "; ".join(f"{key}: {value}" for key, value in style_dict.items()) + ";"
dict_to_style(style_dict) ==
    join(<<";", " ">>,
         [i \in DOMAIN style_dict |-> item_str(style_dict[i][1], style_dict[i][2])])
    \o <<";">>

\* for d in style_dicts: result.update(d), result being object r of heap h
RECURSIVE merge_loop(_, _, _)
merge_loop(h, r, style_dicts) ==
    IF style_dicts = <<>> THEN h
    ELSE merge_loop([h EXCEPT ![r] = update(h[r], h[Head(style_dicts)])],
                    r, Tail(style_dicts))

\* mutant: the loop stops before the last argument
merge_styles_skip_last(h, style_dicts) ==
    LET result == alloc(h, <<>>)
    IN [heap |-> merge_loop(result.heap, result.ret,
                            SubSeq(style_dicts, 1, Len(style_dicts) - 1)),
        ret |-> result.ret]

\* mutant: result is the first argument itself, updated in place
merge_styles_in_place(h, style_dicts) ==
    IF style_dicts = <<>> THEN alloc(h, <<>>)
    ELSE [heap |-> merge_loop(h, Head(style_dicts), Tail(style_dicts)),
          ret |-> Head(style_dicts)]

\* merge_styles(*style_dicts), the arguments given as object ids: the heap
\* after the call and the id of the object returned
merge_styles(h, style_dicts) ==
    LET result == alloc(h, <<>>)
    IN [heap |-> merge_loop(result.heap, result.ret, style_dicts),
        ret |-> result.ret]

\* one merge_styles call as the caller sees it: the argument ids, the id
\* returned, and the arguments' contents before and after the call
call(h, style_dicts, m) ==
    [args |-> style_dicts, ret |-> m.ret,
     before |-> [i \in DOMAIN style_dicts |-> h[style_dicts[i]]],
     after |-> [i \in DOMAIN style_dicts |-> m.heap[style_dicts[i]]]]

\* the objects that outlive a call: the module's, the caller's inputs and
\* the results the caller holds
live(held) == DOMAIN source0 \cup {held[i] : i \in DOMAIN held}

---------------------------------------------------------------------------
(* Callers of the two functions *)

\* result = merge_styles(D1, ..., Dn)
CallMergeStyles ==
    LET m == merge_styles(heap, inputs)
    IN /\ results' = <<m.ret>>
       /\ heap' = release(m.heap, live(results'))
       /\ lastCall' = [fn |-> "merge_styles", args |-> inputs, styled |-> <<>>,
                       calls |-> <<call(heap, inputs, m)>>]
       /\ out' = <<>>
       /\ response' = <<>>
       /\ UNCHANGED <<source0, inputs, genVars, otherVars>>

\* left = merge_styles(merge_styles(A, B), C)
\* right = merge_styles(A, merge_styles(B, C))
\* flat = merge_styles(A, B, C)
CallMergeGroupings ==
    /\ Len(inputs) = 3
    /\ \E A \in {inputs[1]} : \E B \in {inputs[2]} : \E C \in {inputs[3]} :
       \E ab \in {merge_styles(heap, <<A, B>>)} :
       \E left \in {merge_styles(ab.heap, <<ab.ret, C>>)} :
       \E bc \in {merge_styles(left.heap, <<B, C>>)} :
       \E right \in {merge_styles(bc.heap, <<A, bc.ret>>)} :
       \E flat \in {merge_styles(right.heap, <<A, B, C>>)} :
          /\ results' = <<left.ret, right.ret, flat.ret>>
          /\ heap' = release(flat.heap, live(results'))
          /\ lastCall' = [fn |-> "groupings", args |-> inputs, styled |-> <<>>,
                          calls |-> <<call(heap, <<A, B>>, ab),
                                      call(ab.heap, <<ab.ret, C>>, left),
                                      call(left.heap, <<B, C>>, bc),
                                      call(bc.heap, <<A, bc.ret>>, right),
                                      call(right.heap, <<A, B, C>>, flat)>>]
    /\ out' = <<>>
    /\ response' = <<>>
    /\ UNCHANGED <<source0, inputs, genVars, otherVars>>

\* dict_to_style(Di) for one of the caller's declarations
CallDictToStyle ==
    \E i \in DOMAIN inputs :
        /\ out' = dict_to_style(heap[inputs[i]])
        /\ lastCall' = [fn |-> "dict_to_style", args |-> <<inputs[i]>>,
                        styled |-> heap[inputs[i]], calls |-> <<>>]
        /\ results' = <<>>
        /\ heap' = release(heap, live(results'))
        /\ response' = <<>>
        /\ UNCHANGED <<source0, inputs, genVars, otherVars>>

\* dict_to_style(merge_styles(D1, ..., Dn)), as the GET handler writes it
CallStyleOfMerge ==
    LET m == merge_styles(heap, inputs)
    IN /\ out' = dict_to_style(m.heap[m.ret])
       /\ lastCall' = [fn |-> "dict_to_style(merge_styles)", args |-> inputs,
                       styled |-> m.heap[m.ret],
                       calls |-> <<call(heap, inputs, m)>>]
       /\ results' = <<>>
       /\ heap' = release(m.heap, live(results'))
       /\ response' = <<>>
       /\ UNCHANGED <<source0, inputs, genVars, otherVars>>

\* the style strings of the GET / page in evaluation order, custom_card,
\* p_style and box_style being the three merged dicts
page_styles(h, custom_card, p_style, box_style) ==
    << dict_to_style(h[addr("HEADING_STYLES.h1")]),
       dict_to_style(<< <<"text-align", "center">>, <<"color", "#64748b">>,
                        <<"font-size", "18px">> >>),
       dict_to_style(custom_card),
       dict_to_style(h[addr("HEADING_STYLES.h2")]),
       dict_to_style(h[addr("BUTTON_STYLES.primary")]),
       dict_to_style(h[addr("BUTTON_STYLES.secondary")]),
       dict_to_style(h[addr("BUTTON_STYLES.success")]),
       dict_to_style(h[addr("BUTTON_STYLES.danger")]),
       dict_to_style(<< <<"text-align", "center">>, <<"margin", "20px 0">> >>),
       dict_to_style(h[addr("CARD_STYLE")]),
       dict_to_style(h[addr("HEADING_STYLES.h2")]),
       dict_to_style(h[addr("ALERT_STYLES.info")]),
       dict_to_style(h[addr("ALERT_STYLES.success")]),
       dict_to_style(h[addr("ALERT_STYLES.warning")]),
       dict_to_style(h[addr("CARD_STYLE")]),
       dict_to_style(h[addr("HEADING_STYLES.h2")]),
       dict_to_style(p_style),
       dict_to_style(box_style),
       dict_to_style(h[addr("CARD_STYLE")]) >>

\* GET / (04_style_dictionaries.py): the handler's merge_styles and
\* dict_to_style calls; the dicts it creates die when it returns.
\* (Each \E binds the value of one expression of the handler.)
Get ==
    \E lit \in {alloc(heap, << <<"background",
                                 "linear-gradient(to bottom, #ffffff, #f9fafb)">> >>)} :
    \E custom_card \in {merge_styles(lit.heap, <<addr("CARD_STYLE"), lit.ret>>)} :
    \E p1 \in {alloc(custom_card.heap,
                     << <<"color", "#1f2937">>, <<"font-size", "16px">> >>)} :
    \E p2 \in {alloc(p1.heap, << <<"background-color", "#f3f4f6">>,
                                 <<"padding", "15px">>, <<"border-radius", "8px">> >>)} :
    \E pm \in {merge_styles(p2.heap, <<p1.ret, p2.ret>>)} :
    \E b1 \in {alloc(pm.heap, << <<"padding", "20px">>, <<"border-radius", "12px">> >>)} :
    \E b2 \in {alloc(b1.heap, << <<"background",
                                   "linear-gradient(135deg, #667eea 0%, #764ba2 100%)">> >>)} :
    \E b3 \in {alloc(b2.heap, << <<"color", "white">>, <<"text-align", "center">>,
                                 <<"font-weight", "600">>, <<"font-size", "18px">> >>)} :
    \E bm \in {merge_styles(b3.heap, <<b1.ret, b2.ret, b3.ret>>)} :
       /\ response' = page_styles(bm.heap, custom_card.heap[custom_card.ret],
                                  pm.heap[pm.ret], bm.heap[bm.ret])
       /\ results' = <<>>
       /\ out' = <<>>
       /\ heap' = release(bm.heap, live(results'))
       /\ lastCall' = [fn |-> "get", args |-> <<>>, styled |-> <<>>,
                       calls |-> <<call(lit.heap, <<addr("CARD_STYLE"), lit.ret>>,
                                        custom_card),
                                   call(p2.heap, <<p1.ret, p2.ret>>, pm),
                                   call(b3.heap, <<b1.ret, b2.ret, b3.ret>>, bm)>>]
       /\ UNCHANGED <<source0, inputs, genVars, otherVars>>

---------------------------------------------------------------------------
(* The callers' state machine *)

\* 06_css_class_generator.py has not been imported
AppIdle ==
    /\ modulePc = 0
    /\ requests = <<>>

\* no page function has been called
PagesIdle ==
    /\ text = <<>>
    /\ element = [kind |-> "none", tag |-> "", attrs |-> <<>>, children |-> <<>>,
                  text |-> <<>>]
    /\ xml = <<>>
    /\ pageCall = [fn |-> "none", raised |-> "", children |-> <<>>, variant |-> "",
                   styles |-> <<>>]
    /\ plots = <<>>

\* capture_screenshots.py does not run
ShotsIdle ==
    /\ mainPc = "none"
    /\ idx = 0
    /\ shotPc = "none"
    /\ servers = <<>>
    /\ signals = <<>>
    /\ timedOut = FALSE
    /\ browser = "none"
    /\ pending = [kind |-> "none", value |-> FALSE]
    /\ success_count = 0
    /\ failed_experiments = <<>>
    /\ files = {}

\* none of the other programs runs
OthersIdle ==
    /\ AppIdle
    /\ PagesIdle
    /\ ShotsIdle

\* no CSSGenerator is in use
GenIdle ==
    /\ classes = <<>>
    /\ log = <<>>
    /\ ops = 0
    /\ lastOp = [op |-> "none", name |-> "", kw |-> <<>>, mapping |-> <<>>, raised |-> ""]
    /\ css = <<>>
    /\ prevCss = <<>>
    /\ consecutive = FALSE
    /\ styleTag = [tag |-> "", content |-> <<>>]

\* the module has been imported and the caller has bound D1..Dn
InitStyle ==
    \E ds \in ArgLists(MaxArgs, MaxTotal) :
        /\ heap = ModuleHeap \o ds
        /\ inputs = [i \in DOMAIN ds |-> Len(ModuleHeap) + i]
    /\ source0 = heap
    /\ results = <<>>
    /\ lastCall = [fn |-> "none", args |-> <<>>, styled |-> <<>>, calls |-> <<>>]
    /\ out = <<>>
    /\ response = <<>>
    /\ GenIdle
    /\ OthersIdle

NextStyle ==
    \/ CallMergeStyles
    \/ CallMergeGroupings
    \/ CallDictToStyle
    \/ CallStyleOfMerge
    \/ Get

SpecStyle == InitStyle /\ [][NextStyle]_vars

---------------------------------------------------------------------------
(* Properties of dict_to_style and merge_styles, checked under SpecStyle *)

\* the declarations D1..Dn the caller bound, as dicts
InputDicts == [i \in DOMAIN inputs |-> source0[inputs[i]]]

\* each entry "prop: value" followed by a semicolon, entries a space apart
RECURSIVE EntriesWithSemicolons(_)
EntriesWithSemicolons(D) ==
    IF D = <<>> THEN <<>>
    ELSE <<Head(D)[1], ":", " ", Head(D)[2], ";">>
         \o (IF Len(D) > 1 THEN <<" ">> ELSE <<>>)
         \o EntriesWithSemicolons(Tail(D))

StyledCall == lastCall.fn \in {"dict_to_style", "dict_to_style(merge_styles)"}

ExampleDict == << <<"color", "red">>, <<"font-size", "16px">> >>

\* C1: for a non-empty declaration D, dict_to_style(D) is D's entries
\* "prop: value" in insertion order, every entry including the last followed
\* by a semicolon and consecutive entries a space apart; for
\* {'color': 'red', 'font-size': '16px'} it is "color: red; font-size: 16px;"
DictToStyleFormat ==
    (StyledCall /\ lastCall.styled # <<>>) =>
        /\ out = EntriesWithSemicolons(lastCall.styled)
        /\ out[Len(out)] = ";"
        /\ (lastCall.styled = ExampleDict =>
                Text(out) = "color: red; font-size: 16px;")

DictToStyleFormatWitness ==
    /\ lastCall.fn = "dict_to_style"
    /\ lastCall.styled = ExampleDict
    /\ Text(out) = "color: red; font-size: 16px;"

\* C2 (as claimed): serializing a declaration with no properties, the result
\* of merging zero declarations included, returns the empty string
EmptyDictToStyleIsEmpty ==
    (StyledCall /\ lastCall.styled = <<>>) => Text(out) = ""

\* the value of property k in the last of D1..Dn that has it
RECURSIVE LastValue(_, _)
LastValue(ds, k) ==
    IF k \in keys(ds[Len(ds)]) THEN get(ds[Len(ds)], k)
    ELSE LastValue(SubSeq(ds, 1, Len(ds) - 1), k)

AllKeys(ds) == UNION {keys(ds[i]) : i \in DOMAIN ds}

\* R is the merge of ds: the properties of some Di, once each, each with its
\* value in the last Di that has it
IsMergeOf(R, ds) ==
    /\ keys(R) = AllKeys(ds)
    /\ Len(R) = Cardinality(keys(R))
    /\ \A k \in keys(R) : get(R, k) = LastValue(ds, k)

\* C3: merge_styles(D1..Dn), n >= 0, has exactly the properties that occur
\* in some Di, each with its value in the last Di that contains it; with
\* n = 0 it is the empty declaration
MergeRightmostWins ==
    lastCall.fn = "merge_styles" =>
        /\ IsMergeOf(heap[results[1]], InputDicts)
        /\ (inputs = <<>> => heap[results[1]] = <<>>)

\* a property that D1 and D3 give different values, merged with D3's
MergeRightmostWinsWitness ==
    /\ lastCall.fn = "merge_styles"
    /\ Len(inputs) = 3
    /\ \E k \in keys(InputDicts[1]) \cap keys(InputDicts[3]) :
          /\ get(InputDicts[1], k) # get(InputDicts[3], k)
          /\ get(heap[results[1]], k) = get(InputDicts[3], k)

\* Python's dict ==: the same keys with the same values, in any order
DictEq(a, b) == keys(a) = keys(b) /\ \A k \in keys(a) : get(a, k) = get(b, k)

\* C4: merge_styles(merge_styles(A, B), C), merge_styles(A, merge_styles(B, C))
\* and merge_styles(A, B, C) are equal declarations
MergeAssociative ==
    lastCall.fn = "groupings" =>
        /\ DictEq(heap[results[1]], heap[results[2]])
        /\ DictEq(heap[results[2]], heap[results[3]])
        /\ DictEq(heap[results[1]], heap[results[3]])

\* three declarations sharing a property, no two with the same value
\* for it where values allow, grouped all three ways
MergeAssociativeWitness ==
    /\ lastCall.fn = "groupings"
    /\ \E k \in keys(InputDicts[1]) \cap keys(InputDicts[2]) \cap keys(InputDicts[3]) :
          /\ get(InputDicts[1], k) # get(InputDicts[2], k)
          /\ get(InputDicts[2], k) # get(InputDicts[3], k)
    /\ heap[results[1]] # <<>>

\* the items of D1..Dn one after the other
RECURSIVE Concatenation(_)
Concatenation(ds) ==
    IF ds = <<>> THEN <<>> ELSE Head(ds) \o Concatenation(Tail(ds))

\* the place of the first item of c that has property k
FirstOccurrence(c, k) ==
    CHOOSE i \in DOMAIN c :
        c[i][1] = k /\ \A j \in 1..(i - 1) : c[j][1] # k

\* R has the properties of ds once each, in the order of their first
\* occurrences in the concatenation of ds, each with its last value
OrderedByFirstOccurrence(R, ds) ==
    /\ IsMergeOf(R, ds)
    /\ \A i, j \in DOMAIN R :
          i < j <=> FirstOccurrence(Concatenation(ds), R[i][1])
                      < FirstOccurrence(Concatenation(ds), R[j][1])

\* C20: the properties of merge_styles(D1..Dn) are in the order of their
\* first occurrences in D1, ..., Dn taken one after the other; a property
\* that a later declaration overrides stays where it first occurred and has
\* the later value; the left-nested, right-nested and flat merges of three
\* declarations have that same order, so dict_to_style gives the same
\* string for all three
MergeOrderedByFirstOccurrence ==
    /\ lastCall.fn = "merge_styles" =>
          OrderedByFirstOccurrence(heap[results[1]], InputDicts)
    /\ lastCall.fn = "groupings" =>
          /\ \A g \in 1..3 :
                OrderedByFirstOccurrence(heap[results[g]], InputDicts)
          /\ \A g \in 2..3 :
                dict_to_style(heap[results[g]]) = dict_to_style(heap[results[1]])

\* A's property overridden by C with another value, B bringing a second
\* property in between: all three groupings start with A's property and
\* give it C's value
MergeOrderedByFirstOccurrenceWitness ==
    /\ lastCall.fn = "groupings"
    /\ InputDicts = << << <<"color", "red">> >>,
                       << <<"font-size", "16px">> >>,
                       << <<"color", "16px">> >> >>
    /\ \A g \in 1..3 :
          Text(dict_to_style(heap[results[g]])) = "color: 16px; font-size: 16px;"

\* C10: merge_styles and dict_to_style leave the declarations passed to them
\* as they were: every source declaration (the module's, CARD_STYLE among
\* them, and the caller's) keeps its properties, values and order over any
\* sequence of calls and GET / requests, every argument of every merge_styles
\* call is the same after the call as before, and the dict returned is a new
\* object, none of the arguments and none of the source declarations
SourcesNeverModified ==
    /\ \A id \in DOMAIN source0 : id \in DOMAIN heap /\ heap[id] = source0[id]
    /\ \A c \in DOMAIN lastCall.calls :
          LET cl == lastCall.calls[c]
          IN /\ cl.after = cl.before
             /\ \A i \in DOMAIN cl.args : cl.ret # cl.args[i]
             /\ cl.ret \notin DOMAIN source0

\* a GET / has derived custom_card from CARD_STYLE: the page shows both the
\* overridden background and CARD_STYLE's own
SourcesNeverModifiedWitness ==
    /\ lastCall.fn = "get"
    /\ lastCall.calls[1].args[1] = addr("CARD_STYLE")
    /\ response[3] # response[10]
    /\ response[10] = dict_to_style(CARD_STYLE)
    /\ inputs # <<>>

---------------------------------------------------------------------------
(* 06_css_class_generator.py: CSSGenerator *)

\* the arguments of the add_class calls a caller makes: the class name, the
\* styles written as keywords and the mapping unpacked with **
Names == {"", "card"}
KwArgs == {<<>>, << <<"display", "flex">> >>}
Mappings == {<<>>, << <<"display", "grid">> >>, << <<"color", "red">> >>}

\* binding keywords and an unpacked mapping to **styles: a name given both
\* ways is a TypeError (got multiple values for keyword argument), else
\* styles holds the keywords, then the mapping's items
bind_kwargs(kw, mapping) ==
    IF keys(kw) \cap keys(mapping) # {}
    THEN [raised |-> "TypeError", styles |-> <<>>]
    ELSE [raised |-> "", styles |-> kw \o mapping]

\* mutant: a name registered again has the new styles merged into its old ones
add_class_merging(cls, name, styles) ==
    IF name \in keys(cls) THEN setitem(cls, name, update(get(cls, name), styles))
    ELSE setitem(cls, name, styles)

\* mutant: a name registered again is moved behind all other names
add_class_moving_to_end(cls, name, styles) ==
    setitem_move_to_end(cls, name, styles)

\* self.classes[name] = styles
add_class(cls, name, styles) == setitem(cls, name, styles)

\* the calls lo..hi of a sequence of self.add_class(...) calls, made one
\* after the other on r.classes unless an exception has ended the sequence
RECURSIVE add_classes_range(_, _, _, _)
add_classes_range(r, calls, lo, hi) ==
    IF lo > hi \/ r.raised # "" THEN r
    ELSE IF lo = hi
    THEN LET b == bind_kwargs(calls[lo].kw, calls[lo].mapping)
         IN IF b.raised # "" THEN [raised |-> b.raised, classes |-> r.classes]
            ELSE [raised |-> "", classes |-> add_class(r.classes, calls[lo].name, b.styles)]
    ELSE LET mid == (lo + hi) \div 2
         IN add_classes_range(add_classes_range(r, calls, lo, mid), calls, mid + 1, hi)

\* a sequence of self.add_class(...) calls; an exception ends it
add_classes(cls, calls) ==
    add_classes_range([raised |-> "", classes |-> cls], calls, 1, Len(calls))

\* ghost: the registrations a sequence of add_class calls makes, which are
\* those before the first call that raises
registrations(calls) ==
    LET raising == {i \in DOMAIN calls : bind_kwargs(calls[i].kw, calls[i].mapping).raised # ""}
        n == IF raising = {} THEN Len(calls)
             ELSE (CHOOSE i \in raising : \A j \in raising : i <= j) - 1
    IN [i \in 1..n |-> [name |-> calls[i].name,
                        styles |-> bind_kwargs(calls[i].kw, calls[i].mapping).styles]]

\* the add_class calls of add_utility_classes, in order
utility_calls ==
    << [name |-> "text-blue", kw |-> << <<"color", "#3b82f6">> >>,
        mapping |-> <<>>],
       [name |-> "text-green", kw |-> << <<"color", "#10b981">> >>,
        mapping |-> <<>>],
       [name |-> "text-red", kw |-> << <<"color", "#ef4444">> >>,
        mapping |-> <<>>],
       [name |-> "text-yellow", kw |-> << <<"color", "#f59e0b">> >>,
        mapping |-> <<>>],
       [name |-> "text-purple", kw |-> << <<"color", "#8b5cf6">> >>,
        mapping |-> <<>>],
       [name |-> "text-gray", kw |-> << <<"color", "#6b7280">> >>,
        mapping |-> <<>>],
       [name |-> "bg-blue", kw |-> <<>>,
        mapping |-> << <<"background-color", "#3b82f6">> >>],
       [name |-> "bg-green", kw |-> <<>>,
        mapping |-> << <<"background-color", "#10b981">> >>],
       [name |-> "bg-red", kw |-> <<>>,
        mapping |-> << <<"background-color", "#ef4444">> >>],
       [name |-> "bg-yellow", kw |-> <<>>,
        mapping |-> << <<"background-color", "#f59e0b">> >>],
       [name |-> "bg-purple", kw |-> <<>>,
        mapping |-> << <<"background-color", "#8b5cf6">> >>],
       [name |-> "bg-gray", kw |-> <<>>,
        mapping |-> << <<"background-color", "#6b7280">> >>],
       [name |-> "p-0", kw |-> << <<"padding", "0px">> >>,
        mapping |-> <<>>],
       [name |-> "m-0", kw |-> << <<"margin", "0px">> >>,
        mapping |-> <<>>],
       [name |-> "p-1", kw |-> << <<"padding", "4px">> >>,
        mapping |-> <<>>],
       [name |-> "m-1", kw |-> << <<"margin", "4px">> >>,
        mapping |-> <<>>],
       [name |-> "p-2", kw |-> << <<"padding", "8px">> >>,
        mapping |-> <<>>],
       [name |-> "m-2", kw |-> << <<"margin", "8px">> >>,
        mapping |-> <<>>],
       [name |-> "p-3", kw |-> << <<"padding", "12px">> >>,
        mapping |-> <<>>],
       [name |-> "m-3", kw |-> << <<"margin", "12px">> >>,
        mapping |-> <<>>],
       [name |-> "p-4", kw |-> << <<"padding", "16px">> >>,
        mapping |-> <<>>],
       [name |-> "m-4", kw |-> << <<"margin", "16px">> >>,
        mapping |-> <<>>],
       [name |-> "p-5", kw |-> << <<"padding", "20px">> >>,
        mapping |-> <<>>],
       [name |-> "m-5", kw |-> << <<"margin", "20px">> >>,
        mapping |-> <<>>],
       [name |-> "rounded", kw |-> <<>>,
        mapping |-> << <<"border-radius", "4px">> >>],
       [name |-> "rounded-lg", kw |-> <<>>,
        mapping |-> << <<"border-radius", "8px">> >>],
       [name |-> "rounded-xl", kw |-> <<>>,
        mapping |-> << <<"border-radius", "12px">> >>],
       [name |-> "rounded-full", kw |-> <<>>,
        mapping |-> << <<"border-radius", "9999px">> >>],
       [name |-> "font-normal", kw |-> <<>>,
        mapping |-> << <<"font-weight", "400">> >>],
       [name |-> "font-medium", kw |-> <<>>,
        mapping |-> << <<"font-weight", "500">> >>],
       [name |-> "font-semibold", kw |-> <<>>,
        mapping |-> << <<"font-weight", "600">> >>],
       [name |-> "font-bold", kw |-> <<>>,
        mapping |-> << <<"font-weight", "700">> >>],
       [name |-> "text-left", kw |-> <<>>,
        mapping |-> << <<"text-align", "left">> >>],
       [name |-> "text-center", kw |-> <<>>,
        mapping |-> << <<"text-align", "center">> >>],
       [name |-> "text-right", kw |-> <<>>,
        mapping |-> << <<"text-align", "right">> >>] >>

\* the add_class calls of generate_responsive_classes, in order
responsive_calls ==
    << [name |-> "flex", kw |-> << <<"display", "flex">> >>,
        mapping |-> <<>>],
       [name |-> "flex-col", kw |-> << <<"display", "flex">> >>,
        mapping |-> << <<"flex-direction", "column">> >>],
       [name |-> "flex-row", kw |-> << <<"display", "flex">> >>,
        mapping |-> << <<"flex-direction", "row">> >>],
       [name |-> "items-center", kw |-> <<>>,
        mapping |-> << <<"align-items", "center">> >>],
       [name |-> "justify-center", kw |-> <<>>,
        mapping |-> << <<"justify-content", "center">> >>],
       [name |-> "justify-between", kw |-> <<>>,
        mapping |-> << <<"justify-content", "space-between">> >>],
       [name |-> "grid", kw |-> << <<"display", "grid">> >>,
        mapping |-> <<>>],
       [name |-> "grid-cols-2", kw |-> << <<"display", "grid">> >>,
        mapping |-> << <<"grid-template-columns", "repeat(2, 1fr)">> >>],
       [name |-> "grid-cols-3", kw |-> << <<"display", "grid">> >>,
        mapping |-> << <<"grid-template-columns", "repeat(3, 1fr)">> >>],
       [name |-> "gap-4", kw |-> << <<"gap", "16px">> >>,
        mapping |-> <<>>] >>

\* the add_class calls of generate_component_classes, in order
component_calls ==
    << [name |-> "btn", kw |-> <<>>,
        mapping |-> << <<"padding", "10px 20px">>, <<"border", "none">>, <<"border-radius", "6px">>, <<"font-weight", "600">>, <<"cursor", "pointer">>, <<"transition", "all 0.3s ease">> >>],
       [name |-> "btn-primary", kw |-> <<>>,
        mapping |-> << <<"background-color", "#3b82f6">>, <<"color", "white">> >>],
       [name |-> "btn-secondary", kw |-> <<>>,
        mapping |-> << <<"background-color", "#6b7280">>, <<"color", "white">> >>],
       [name |-> "card", kw |-> <<>>,
        mapping |-> << <<"background", "white">>, <<"border", "1px solid #e5e7eb">>, <<"border-radius", "12px">>, <<"padding", "20px">>, <<"box-shadow", "0 1px 3px rgba(0,0,0,0.1)">> >>],
       [name |-> "badge", kw |-> <<>>,
        mapping |-> << <<"display", "inline-block">>, <<"padding", "4px 12px">>, <<"border-radius", "12px">>, <<"font-size", "12px">>, <<"font-weight", "600">> >>] >>

\* mutant: the last declaration of a block has no semicolon
css_line_no_final_semicolon(class_name, styles) ==
    <<".", class_name, " ", "{", " ">>
    \o join(<<";", " ">>, [i \in DOMAIN styles |-> <<styles[i][1], ":", " ", styles[i][2]>>])
    \o <<" ", "}">>

\* f".{class_name} {{ {style_str}; }}" with
\* style_str = "; ".join(f"{k}: {v}" for k, v in styles.items())
css_line(class_name, styles) ==
    <<".", class_name, " ", "{", " ">>
    \o join(<<";", " ">>, [i \in DOMAIN styles |-> <<styles[i][1], ":", " ", styles[i][2]>>])
    \o <<";", " ", "}">>

\* css_lines, one line per item of self.classes in the dict's order
css_lines(cls) == [i \in DOMAIN cls |-> css_line(cls[i][1], cls[i][2])]

\* mutant: the lines are emitted last registration first
to_css_reversed(cls) ==
    join(<<"\n">>, [i \in DOMAIN cls |-> css_lines(cls)[Len(cls) + 1 - i]])

\* "\n".join(css_lines)
to_css(cls) == join(<<"\n">>, css_lines(cls))

NoArgs(op) == [op |-> op, name |-> "", kw |-> <<>>, mapping |-> <<>>, raised |-> ""]

\* mutant: a style tag handed out earlier follows the registered classes
AddClass_refreshing_style_tag ==
    \E name \in Names, kw \in KwArgs, mapping \in Mappings :
    \E b \in {bind_kwargs(kw, mapping)} :
        /\ ops < MaxOps
        /\ lastOp' = [op |-> "add_class", name |-> name, kw |-> kw,
                      mapping |-> mapping, raised |-> b.raised]
        /\ IF b.raised # ""
           THEN UNCHANGED <<classes, log, ops, styleTag>>
           ELSE /\ classes' = add_class(classes, name, b.styles)
                /\ log' = Append(log, [name |-> name, styles |-> b.styles])
                /\ ops' = ops + 1
                /\ styleTag' = IF styleTag.tag = "style"
                               THEN [styleTag EXCEPT !.content = to_css(classes')]
                               ELSE styleTag
        /\ prevCss' = <<>>
        /\ consecutive' = FALSE
        /\ UNCHANGED <<css, styleVars, otherVars>>

\* css_gen.add_class(name, kw..., **mapping)
AddClass ==
    \E name \in Names, kw \in KwArgs, mapping \in Mappings :
    \E b \in {bind_kwargs(kw, mapping)} :
        /\ ops < MaxOps
        /\ lastOp' = [op |-> "add_class", name |-> name, kw |-> kw,
                      mapping |-> mapping, raised |-> b.raised]
        /\ IF b.raised # ""
           THEN UNCHANGED <<classes, log, ops>>
           ELSE /\ classes' = add_class(classes, name, b.styles)
                /\ log' = Append(log, [name |-> name, styles |-> b.styles])
                /\ ops' = ops + 1
        /\ prevCss' = <<>>
        /\ consecutive' = FALSE
        /\ UNCHANGED <<css, styleTag, styleVars, otherVars>>

\* one of the generate methods, op, whose add_class calls ended as r
Generated(op, calls, r) ==
    /\ classes' = r.classes
    /\ log' = log \o registrations(calls)
    /\ ops' = ops + 1
    /\ lastOp' = [NoArgs(op) EXCEPT !.raised = r.raised]
    /\ prevCss' = <<>>
    /\ consecutive' = FALSE
    /\ UNCHANGED <<css, styleTag, styleVars, otherVars>>

\* css_gen.add_utility_classes()
AddUtilityClasses ==
    /\ ops < MaxOps
    /\ \E r \in {add_classes(classes, utility_calls)} :
          Generated("add_utility_classes", utility_calls, r)

\* css_gen.generate_responsive_classes()
GenerateResponsiveClasses ==
    /\ ops < MaxOps
    /\ \E r \in {add_classes(classes, responsive_calls)} :
          Generated("generate_responsive_classes", responsive_calls, r)

\* css_gen.generate_component_classes()
GenerateComponentClasses ==
    /\ ops < MaxOps
    /\ \E r \in {add_classes(classes, component_calls)} :
          Generated("generate_component_classes", component_calls, r)

\* mutant: to_css empties self.classes as it walks it
ToCss_draining ==
    /\ css' = to_css(classes)
    /\ prevCss' = IF lastOp.op = "to_css" THEN css ELSE <<>>
    /\ consecutive' = (lastOp.op = "to_css")
    /\ lastOp' = NoArgs("to_css")
    /\ classes' = <<>>
    /\ UNCHANGED <<log, ops, styleTag, styleVars, otherVars>>

\* text = css_gen.to_css()
ToCss ==
    /\ css' = to_css(classes)
    /\ prevCss' = IF lastOp.op = "to_css" THEN css ELSE <<>>
    /\ consecutive' = (lastOp.op = "to_css")
    /\ lastOp' = NoArgs("to_css")
    /\ UNCHANGED <<classes, log, ops, styleTag, styleVars, otherVars>>

\* tag = css_gen.get_style_tag(): Style(self.to_css())
GetStyleTag ==
    /\ styleTag' = [tag |-> "style", content |-> to_css(classes)]
    /\ lastOp' = NoArgs("get_style_tag")
    /\ prevCss' = <<>>
    /\ consecutive' = FALSE
    /\ UNCHANGED <<classes, log, ops, css, styleVars, otherVars>>

\* no style call has been made
StyleIdle ==
    /\ heap = <<>>
    /\ source0 = <<>>
    /\ inputs = <<>>
    /\ results = <<>>
    /\ lastCall = [fn |-> "none", args |-> <<>>, styled |-> <<>>, calls |-> <<>>]
    /\ out = <<>>
    /\ response = <<>>

\* CSSGenerator(): self.classes = {}
InitGen ==
    /\ classes = <<>>
    /\ log = <<>>
    /\ ops = 0
    /\ lastOp = NoArgs("__init__")
    /\ css = <<>>
    /\ prevCss = <<>>
    /\ consecutive = FALSE
    /\ styleTag = [tag |-> "", content |-> <<>>]
    /\ StyleIdle
    /\ OthersIdle

NextGen ==
    \/ AddClass
    \/ AddUtilityClasses
    \/ GenerateResponsiveClasses
    \/ GenerateComponentClasses
    \/ ToCss
    \/ GetStyleTag

SpecGen == InitGen /\ [][NextGen]_vars

---------------------------------------------------------------------------
(* Properties of CSSGenerator, checked under SpecGen *)

\* the lines of a text, each with its place: a line runs between two
\* consecutive line breaks (or ends of the text); the empty text has none
RankedLines(t) ==
    IF t = <<>> THEN {}
    ELSE LET nl == {i \in DOMAIN t : t[i] = "\n"}
             starts == {0} \cup nl
             stop(a) == CHOOSE b \in nl \cup {Len(t) + 1} :
                            b > a /\ \A c \in nl : c > a => b <= c
         IN {<<Cardinality({x \in nl : x <= a}) + 1, SubSeq(t, a + 1, stop(a) - 1)>> :
                a \in starts}

\* the class name a block is for: what stands between "." and " {"
BlockName(line) == line[2]

\* the "prop: value" pairs a block holds
BlockPairs(line) ==
    {<<line[i - 1], line[i + 2]>> : i \in {j \in DOMAIN line : line[j] = ":"}}

\* '.name { prop: value; ... }' for a declaration with properties
Block(name, D) == <<".", name, " ", "{", " ">> \o EntriesWithSemicolons(D) \o <<" ", "}">>

Registered == {log[i].name : i \in DOMAIN log}

\* the declaration of the last add_class call for name n
LastStyles(n) ==
    log[CHOOSE i \in DOMAIN log :
            log[i].name = n /\ \A j \in DOMAIN log : log[j].name = n => j <= i].styles

Items(D) == {D[i] : i \in DOMAIN D}

\* C5: after any sequence of add_class calls, to_css holds exactly one block
\* per distinct registered name and none for another name, and a name's
\* block carries exactly the properties and values of the last declaration
\* registered for it, none of an earlier one
OneBlockPerNameLastWins ==
    lastOp.op = "to_css" =>
        LET L == RankedLines(css)
        IN /\ \A n \in Registered : Cardinality({p \in L : BlockName(p[2]) = n}) = 1
           /\ \A p \in L :
                 /\ BlockName(p[2]) \in Registered
                 /\ BlockPairs(p[2]) = Items(LastStyles(BlockName(p[2])))

\* a name registered with D1 and later with D2, D1 having a property D2 lacks
OneBlockPerNameLastWinsWitness ==
    /\ lastOp.op = "to_css"
    /\ \E i, j \in DOMAIN log :
          /\ i < j
          /\ log[i].name = log[j].name
          /\ log[j].styles # <<>>
          /\ keys(log[i].styles) \ keys(log[j].styles) # {}
          /\ \E p \in RankedLines(css) :
                /\ BlockName(p[2]) = log[j].name
                /\ BlockPairs(p[2]) = Items(log[j].styles)

\* the add_class calls whose name no other call registers
Once == {i \in DOMAIN log : \A j \in DOMAIN log : log[j].name = log[i].name => j = i}

\* the place in the text of the block for name n
PlaceOf(L, n) == (CHOOSE p \in L : BlockName(p[2]) = n)[1]

EmptyNameRejected ==
    /\ "" \notin keys(classes)
    /\ (lastOp.op = "add_class" /\ lastOp.name = "") =>
            lastOp.raised = "InvalidClassNameError"

\* C8: the registered rule sets change only in a step that makes add_class
\* calls (add_class itself or one of the generate methods); to_css and
\* get_style_tag leave them as they are, and of two consecutive to_css calls
\* the second returns the text the first returned
OnlyAddClassChangesClasses ==
    [][/\ lastOp'.op \in {"to_css", "get_style_tag"} => classes' = classes
       /\ classes' # classes =>
             /\ lastOp'.op \in {"add_class", "add_utility_classes",
                                "generate_responsive_classes",
                                "generate_component_classes"}
             /\ log' # log
       /\ (lastOp'.op = "to_css" /\ consecutive') => css' = prevCss']_vars

\* to_css called twice in a row on a generator with rule sets
OnlyAddClassChangesClassesWitness ==
    /\ lastOp.op = "to_css"
    /\ consecutive
    /\ css = prevCss
    /\ css = to_css(classes)
    /\ Len(classes) > 1

\* C9 (as claimed): a declaration built from pairs that name a property twice
\* has one entry for it, with the last value; so an add_class call that gives
\* a property both as a keyword and in the unpacked mapping succeeds and
\* registers the mapping's value for it
DuplicatePropertyLastWins ==
    (lastOp.op = "add_class" /\ keys(lastOp.kw) \cap keys(lastOp.mapping) # {}) =>
        /\ lastOp.raised = ""
        /\ lastOp.name \in keys(classes)
        /\ \A k \in keys(lastOp.kw) \cap keys(lastOp.mapping) :
              LET D == get(classes, lastOp.name)
              IN /\ Cardinality({i \in DOMAIN D : D[i][1] = k}) = 1
                 /\ get(D, k) = get(lastOp.mapping, k)

---------------------------------------------------------------------------
(* 06_css_class_generator.py as a program: the module-level registration  *)
(* sequence on css_gen, the app, and the GET / requests it then serves    *)

\* number of GET / requests sent to the app
MaxRequests == 5

\* the three css_gen.add_class(name, **{...}) calls under "Add custom classes"
custom_calls ==
    << [name |-> "hero", kw |-> <<>>,
        mapping |-> << <<"background", "linear-gradient(135deg, #667eea 0%, #764ba2 100%)">>,
                       <<"color", "white">>, <<"padding", "60px 20px">>,
                       <<"text-align", "center">>, <<"border-radius", "16px">>,
                       <<"margin-bottom", "30px">> >>],
       [name |-> "feature-box", kw |-> <<>>,
        mapping |-> << <<"padding", "30px">>, <<"border", "2px solid #e5e7eb">>,
                       <<"border-radius", "12px">>, <<"text-align", "center">>,
                       <<"transition", "all 0.3s ease">> >>],
       [name |-> "feature-box:hover", kw |-> <<>>,
        mapping |-> << <<"border-color", "#3b82f6">>,
                       <<"box-shadow", "0 10px 20px rgba(59, 130, 246, 0.2)">>,
                       <<"transform", "translateY(-5px)">> >>] >>

\* the module-level statements on css_gen after css_gen = CSSGenerator(), in
\* order: the method called and the add_class calls it makes
module_statements ==
    << [op |-> "add_utility_classes", calls |-> utility_calls],
       [op |-> "generate_responsive_classes", calls |-> responsive_calls],
       [op |-> "generate_component_classes", calls |-> component_calls],
       [op |-> "add_class", calls |-> <<custom_calls[1]>>],
       [op |-> "add_class", calls |-> <<custom_calls[2]>>],
       [op |-> "add_class", calls |-> <<custom_calls[3]>>] >>

\* the next module-level statement on css_gen runs
ImportStatement ==
    /\ modulePc \in DOMAIN module_statements
    /\ \E st \in {module_statements[modulePc]} :
       \E r \in {add_classes(classes, st.calls)} :
          /\ classes' = r.classes
          /\ log' = log \o registrations(st.calls)
          /\ ops' = ops + 1
          /\ lastOp' = [NoArgs(st.op) EXCEPT !.raised = r.raised]
          /\ modulePc' = IF r.raised = "" THEN modulePc + 1 ELSE -1
    /\ prevCss' = <<>>
    /\ consecutive' = FALSE
    /\ UNCHANGED <<css, styleTag, requests, styleVars, pageVars, shotVars>>

\* app, rt = fast_app(hdrs=[css_gen.get_style_tag()]); @rt('/') def get; serve()
CreateApp ==
    /\ modulePc = Len(module_statements) + 1
    /\ styleTag' = [tag |-> "style", content |-> to_css(classes)]
    /\ lastOp' = NoArgs("get_style_tag")
    /\ prevCss' = <<>>
    /\ consecutive' = FALSE
    /\ modulePc' = modulePc + 1
    /\ UNCHANGED <<classes, log, ops, css, requests, styleVars, pageVars, shotVars>>

\* the app is up: every module-level statement has run
Serving == modulePc = Len(module_statements) + 2

\* the server hands request r to the handler
Receive(r) ==
    /\ Serving
    /\ requests[r].phase = "none"
    /\ requests' = [requests EXCEPT ![r].phase = "handling"]
    /\ UNCHANGED <<modulePc, genVars, styleVars, pageVars, shotVars>>

\* mutant: the handler registers a class of its own before it builds the page
get_registering(r) ==
    /\ requests[r].phase = "handling"
    /\ classes' = add_class(classes, "request", << <<"color", "red">> >>)
    /\ log' = Append(log, [name |-> "request", styles |-> << <<"color", "red">> >>])
    /\ requests' = [requests EXCEPT ![r] = [phase |-> "responded",
                                            count |-> Len(classes')]]
    /\ UNCHANGED <<modulePc, ops, lastOp, css, prevCss, consecutive, styleTag, styleVars,
                   pageVars, shotVars>>

\* get(): the page of request r; of css_gen it reads len(css_gen.classes)
get_page(r) ==
    /\ requests[r].phase = "handling"
    /\ requests' = [requests EXCEPT ![r] = [phase |-> "responded",
                                            count |-> Len(classes)]]
    /\ UNCHANGED <<modulePc, genVars, styleVars, pageVars, shotVars>>

\* css_gen = CSSGenerator() has run, no request has been sent
InitApp ==
    /\ classes = <<>>
    /\ log = <<>>
    /\ ops = 0
    /\ lastOp = NoArgs("__init__")
    /\ css = <<>>
    /\ prevCss = <<>>
    /\ consecutive = FALSE
    /\ styleTag = [tag |-> "", content |-> <<>>]
    /\ modulePc = 1
    /\ requests = [r \in 1..MaxRequests |-> [phase |-> "none", count |-> -1]]
    /\ StyleIdle
    /\ PagesIdle
    /\ ShotsIdle

NextApp ==
    \/ ImportStatement
    \/ CreateApp
    \/ \E r \in DOMAIN requests : Receive(r)
    \/ \E r \in DOMAIN requests : get_page(r)

SpecApp == InitApp /\ [][NextApp]_vars

---------------------------------------------------------------------------
(* Properties of the app, checked under SpecApp *)

Responded == {r \in DOMAIN requests : requests[r].phase = "responded"}

\* C11: once the module-level registration sequence has finished, no step of
\* handling a GET / request calls add_class or changes css_gen.classes, and
\* every response reports the same total class count, the number of classes
\* the module registered
CssGenReadOnlyAfterInit ==
    /\ [][Serving => (classes' = classes /\ log' = log /\ Serving')]_vars
    /\ [](\A r \in Responded :
             /\ requests[r].count = Len(classes)
             /\ requests[r].count = Cardinality({log[i].name : i \in DOMAIN log})
             /\ \A q \in Responded : requests[q].count = requests[r].count)

\* the module has registered its classes and several requests have been
\* answered while another is being handled
CssGenReadOnlyAfterInitWitness ==
    /\ Serving
    /\ Len(log) = Len(utility_calls) + Len(responsive_calls)
                  + Len(component_calls) + Len(custom_calls)
    /\ Cardinality(Responded) >= 2
    /\ \E r \in DOMAIN requests : requests[r].phase = "handling"

---------------------------------------------------------------------------
(* The pages: elements built with the constructors of fasthtml.common and *)
(* serialized to markup text.  The constructors and to_xml are the        *)
(* library's; the element tree and its serialization follow the           *)
(* specification's Element Tree Builder (makeElement, serialize).         *)

\* number of pieces of the str a page function is given
MaxText == 2

\* the pieces a given str is made of: the five markup-significant
\* characters, and what an entity written out in the str consists of
Pieces == {"&", "<", ">", "\"", "'", "amp", ";"}

RECURSIVE TextsOfLen(_)
TextsOfLen(n) ==
    IF n = 0 THEN {<<>>}
    ELSE {Append(t[1], t[2]) : t \in TextsOfLen(n - 1) \X Pieces}

\* the text of the end-to-end example
HiBye == <<"Hi", " ", "&", " ", "bye">>

\* a str in which an entity is written out
AmpEntity == <<"&", "amp", ";">>

Texts == UNION {TextsOfLen(n) : n \in 0..MaxText} \cup {HiBye, AmpEntity}

\* no element
NoElement ==
    [kind |-> "none", tag |-> "", attrs |-> <<>>, children |-> <<>>, text |-> <<>>]

\* a str given as a child: a plain text leaf
Str(s) ==
    [kind |-> "text", tag |-> "", attrs |-> <<>>, children |-> <<>>, text |-> s]

\* NotStr(s): a raw-content node wrapping s
NotStr(s) ==
    [kind |-> "raw", tag |-> "", attrs |-> <<>>, children |-> <<>>, text |-> s]

\* an attribute value that is a str
StrValue(s) == [type |-> "str", v |-> s]

\* an attribute value that is a list
ListValue(items) == [type |-> "list", v |-> items]

\* Div(*c, **kw), P(*c, **kw), ...: the element with tag tag, the positional
\* arguments as its children and the keywords as its attributes, both in
\* the order given
ft(tag, c, kw) ==
    [kind |-> "element", tag |-> tag, attrs |-> kw, children |-> c, text |-> <<>>]

Div(c, kw) == ft("div", c, kw)

P(c, kw) == ft("p", c, kw)

H1(c, kw) == ft("h1", c, kw)

H3(c, kw) == ft("h3", c, kw)

H4(c, kw) == ft("h4", c, kw)

\* the entity of each markup-significant character
Entities ==
    << <<"&", "amp">>, <<"<", "lt">>, <<">", "gt">>, <<"\"", "quot">>,
       <<"'", "#x27">> >>

\* mutant: the ampersand is left as it is
escape_keeping_ampersand(s) ==
    IF s = <<>> THEN <<>>
    ELSE LET e[i \in 0..Len(s)] ==
                 IF i = 0 THEN <<>>
                 ELSE e[i - 1] \o (IF s[i] \in keys(Entities) \ {"&"}
                                   THEN <<"&", get(Entities, s[i]), ";">>
                                   ELSE <<s[i]>>)
         IN e[Len(s)]

\* escaping: each markup-significant character becomes & name ;
escape(s) ==
    IF s = <<>> THEN <<>>
    ELSE LET e[i \in 0..Len(s)] ==
                 IF i = 0 THEN <<>>
                 ELSE e[i - 1] \o (IF s[i] \in keys(Entities)
                                   THEN <<"&", get(Entities, s[i]), ";">>
                                   ELSE <<s[i]>>)
         IN e[Len(s)]

\* what a markup parser reads from escaped text: & name ; is the character
\* the entity names, anything else is itself
RECURSIVE unescape(_)
unescape(s) ==
    IF s = <<>> THEN <<>>
    ELSE IF /\ Len(s) >= 3
            /\ s[1] = "&"
            /\ s[3] = ";"
            /\ \E i \in DOMAIN Entities : Entities[i][2] = s[2]
    THEN <<Entities[CHOOSE i \in DOMAIN Entities : Entities[i][2] = s[2]][1]>>
         \o unescape(SubSeq(s, 4, Len(s)))
    ELSE <<Head(s)>> \o unescape(Tail(s))

\* name="value" of an opening tag, the value escaped
to_attr(name, value) == <<" ", name, "=", "\"">> \o escape(value.v) \o <<"\"">>

\* to_xml(node): the opening tag with the attributes in their order, the
\* children in their order, the closing tag; a text leaf escaped, a
\* raw-content node as it is
RECURSIVE to_xml(_)
to_xml(node) ==
    IF node.kind = "text" THEN escape(node.text)
    ELSE IF node.kind = "raw" THEN node.text
    ELSE LET attrs[i \in 0..Len(node.attrs)] ==
                 IF i = 0 THEN <<>>
                 ELSE attrs[i - 1] \o to_attr(node.attrs[i][1], node.attrs[i][2])
             cs[i \in 0..Len(node.children)] ==
                 IF i = 0 THEN <<>>
                 ELSE cs[i - 1] \o to_xml(node.children[i])
         IN <<"<", node.tag>> \o attrs[Len(node.attrs)] \o <<">">>
            \o cs[Len(node.children)] \o <<"</", node.tag, ">">>

---------------------------------------------------------------------------
(* The page functions *)

\* 05_component_styling.py, StyledComponents.Card: variants
Card_variants ==
    << <<"default", << <<"background", "white">>,
                       <<"border", "1px solid #e5e7eb">> >> >>,
       <<"colored", << <<"background",
                         "linear-gradient(135deg, #667eea 0%, #764ba2 100%)">>,
                       <<"border", "none">>, <<"color", "white">> >> >>,
       <<"elevated", << <<"background", "white">>, <<"border", "none">>,
                        <<"box-shadow",
                          "0 20px 25px -5px rgba(0, 0, 0, 0.1), 0 10px 10px -5px rgba(0, 0, 0, 0.04)">> >> >> >>

\* StyledComponents.Card: base_style
Card_base_style ==
    << <<"padding", "25px">>, <<"border-radius", "16px">>, <<"margin", "20px 0">> >>

\* variants.get(variant, variants['default'])
Card_variant(variant) ==
    IF variant \in keys(Card_variants) THEN get(Card_variants, variant)
    ELSE get(Card_variants, "default")

\* card_style = {**base_style, **variants.get(variant, variants['default'])}
\* style_str = "; ".join(f"{k}: {v}" for k, v in card_style.items()) + ";"
Card_style_str(variant) ==
    LET card_style == dict_display(Card_base_style, Card_variant(variant))
    IN join(<<";", " ">>,
            [i \in DOMAIN card_style |->
                <<card_style[i][1], ":", " ", card_style[i][2]>>]) \o <<";">>

\* the title's H3 of a card
Card_title(title, variant) ==
    H3(<<Str(title)>>,
       << <<"style", StrValue(<<"color", ":", " ",
                                IF variant = "colored" THEN "white" ELSE "#1f2937",
                                ";", " ", "font-size: 24px; font-weight: 700; margin-bottom: 15px;">>)>> >>)

\* mutant: the title heading is put after the children
Card_title_last(title, children, variant) ==
    Div(children \o <<Card_title(title, variant)>>,
        << <<"style", StrValue(Card_style_str(variant))>> >>)

\* StyledComponents.Card(title, *children, variant=variant)
Card(title, children, variant) ==
    Div(<<Card_title(title, variant)>> \o children,
        << <<"style", StrValue(Card_style_str(variant))>> >>)

\* prerender_plots.py: the three stat cards of the scatter section
stat_cards ==
    << Div(<<H4(<<Str(<<"Cluster A (Blue)">>)>>, <<>>),
             P(<<Str(<<"100 points centered at (0, 0, 0)">>)>>, <<>>)>>,
           << <<"class", StrValue(<<"stat-card">>)>>,
              <<"style", StrValue(<<"background: #eff6ff; border-color: #93c5fd;">>)>> >>),
       Div(<<H4(<<Str(<<"Cluster B (Green)">>)>>, <<>>),
             P(<<Str(<<"100 points centered at (3, 3, 3)">>)>>, <<>>)>>,
           << <<"class", StrValue(<<"stat-card">>)>>,
              <<"style", StrValue(<<"background: #f0fdf4; border-color: #86efac;">>)>> >>),
       Div(<<H4(<<Str(<<"Cluster C (Orange)">>)>>, <<>>),
             P(<<Str(<<"100 points centered at (-2, 3, -2)">>)>>, <<>>)>>,
           << <<"class", StrValue(<<"stat-card">>)>>,
              <<"style", StrValue(<<"background: #fffbeb; border-color: #fcd34d;">>)>> >>) >>

\* mutant: the exception's message is wrapped as raw content
error_page_raw(e) ==
    Div(<< H1(<<Str(<<"PyVista Configuration Error">>)>>,
              << <<"style", StrValue(<<"color: #dc2626;">>)>> >>),
           P(<<NotStr(<<"Error: ">> \o e)>>,
             << <<"style", StrValue(<<"color: #991b1b; font-family: monospace;">>)>> >>),
           P(<<Str(<<"PyVista requires additional system dependencies and may need a display server. It works best in environments with proper graphics support.">>)>>,
             << <<"style", StrValue(<<"margin-top: 20px; color: #64748b;">>)>> >>) >>,
        << <<"style", StrValue(<<"padding: 40px; max-width: 800px; margin: 0 auto;">>)>> >>)

\* 05_pyvista_3d.py, get, except Exception as e: the Div of the error page,
\* e being str(e)
error_page(e) ==
    Div(<< H1(<<Str(<<"PyVista Configuration Error">>)>>,
              << <<"style", StrValue(<<"color: #dc2626;">>)>> >>),
           P(<<Str(<<"Error: ">> \o e)>>,
             << <<"style", StrValue(<<"color: #991b1b; font-family: monospace;">>)>> >>),
           P(<<Str(<<"PyVista requires additional system dependencies and may need a display server. It works best in environments with proper graphics support.">>)>>,
             << <<"style", StrValue(<<"margin-top: 20px; color: #64748b;">>)>> >>) >>,
        << <<"style", StrValue(<<"padding: 40px; max-width: 800px; margin: 0 auto;">>)>> >>)

\* where plotly.js is loaded from when include_plotlyjs is 'cdn'
PlotlyCdn == "https://cdn.plot.ly/plotly-latest.min.js"

\* fig.to_html(include_plotlyjs=..., div_id=..., full_html=False): a div with
\* the plotly.js script tag that include_plotlyjs asks for ('cdn': loaded from
\* the CDN, False: none), the plot's div and the script that draws the
\* figure's data into it
to_html(data, include_plotlyjs, div_id) ==
    <<"<", "div", ">">>
    \o (IF include_plotlyjs = "cdn"
        THEN <<"<", "script", " ", "src", "=", "\"", PlotlyCdn, "\"", ">",
               "</", "script", ">">>
        ELSE <<>>)
    \o <<"<", "div", " ", "id", "=", "\"", div_id, "\"", ">", "</", "div", ">">>
    \o <<"<", "script", ">", "Plotly.newPlot(", "\"", div_id, "\"", ",">> \o data
    \o <<")", "</", "script", ">", "</", "div", ">">>

\* mutant: the fragment is given as a str child
plot_container_escaping(plot_html, kw) == Div(<<Str(plot_html)>>, kw)

\* Div(NotStr(plot_html), ...): the element a plot fragment is embedded in
plot_container(plot_html, kw) == Div(<<NotStr(plot_html)>>, kw)

\* prerender_plots.py: Div(cls="math-equation", children=[NotStr("z = ...")])
\* (the equation's root and square signs written sqrt and ^2)
math_equation ==
    Div(<<>>,
        << <<"class", StrValue(<<"math-equation">>)>>,
           <<"children", ListValue(<<NotStr(<<"z = sin(sqrt(x^2 + y^2)) / sqrt(x^2 + y^2)">>)>>)>> >>)

\* P(text, style=dict_to_style(D)), as the pages of 04_style_dictionaries.py
\* build their paragraphs
styled_paragraph(s, D) ==
    P(<<Str(s)>>, << <<"style", StrValue(dict_to_style(D))>> >>)

---------------------------------------------------------------------------
(* Calls of the page functions *)

PageCall(fn) ==
    [fn |-> fn, raised |-> "", children |-> <<>>, variant |-> "", styles |-> <<>>]

\* the children a caller gives a card
CardChildren ==
    LET c1 == P(<<Str(<<"This is a default card with standard styling.">>)>>, <<>>)
        c2 == Div(<<Str(<<"Click Me">>), Str(<<"Learn More">>)>>, <<>>)
    IN {<<>>, <<c1, c2>>, <<c2, c1>>}

CardVariants == {"default", "colored", "outlined"}

\* to_xml(StyledComponents.Card(text, *children, variant=variant))
CallCard ==
    \E children \in CardChildren, variant \in CardVariants :
        /\ element' = Card(text, children, variant)
        /\ xml' = to_xml(element')
        /\ pageCall' = [PageCall("Card") EXCEPT !.children = children,
                                                !.variant = variant]
        /\ plots' = <<>>
        /\ UNCHANGED <<text, styleVars, genVars, appVars, shotVars>>

\* one of the stat cards of prerender_plots.py and its markup
CallStatCard ==
    \E i \in DOMAIN stat_cards :
        /\ element' = stat_cards[i]
        /\ xml' = to_xml(element')
        /\ pageCall' = PageCall("stat_card")
        /\ plots' = <<>>
        /\ UNCHANGED <<text, styleVars, genVars, appVars, shotVars>>

\* 05_pyvista_3d.py, get: create_pyvista_3d_surface raises an exception whose
\* message is text
GetPyvistaError ==
    /\ element' = error_page(text)
    /\ xml' = to_xml(element')
    /\ pageCall' = PageCall("pyvista_error")
    /\ plots' = <<>>
    /\ UNCHANGED <<text, styleVars, genVars, appVars, shotVars>>

\* 01_3d_surface.py, get: the plot and its container, the figure's data
\* being text
GetSurfacePage ==
    /\ plots' = <<to_html(text, "cdn", "surface-plot")>>
    /\ element' = plot_container(plots'[1],
          << <<"style", StrValue(<<"display: flex; justify-content: center; margin: 20px auto; max-width: 950px;">>)>> >>)
    /\ xml' = to_xml(element')
    /\ pageCall' = PageCall("surface_page")
    /\ UNCHANGED <<text, styleVars, genVars, appVars, shotVars>>

\* prerender_plots.py, generate_html_page: the three plots and, of the page,
\* the container with the three plot containers; to_xml(page)
GenerateHtmlPage ==
    /\ plots' = << to_html(text, "cdn", "surface-plot"),
                   to_html(text, "False", "scatter-plot"),
                   to_html(text, "False", "parametric-plot") >>
    /\ element' = Div([i \in DOMAIN plots' |->
                          plot_container(plots'[i],
                              << <<"class", StrValue(<<"plot-container">>)>> >>)],
                      << <<"class", StrValue(<<"container">>)>> >>)
    /\ xml' = to_xml(element')
    /\ pageCall' = PageCall("generate_html_page")
    /\ UNCHANGED <<text, styleVars, genVars, appVars, shotVars>>

\* prerender_plots.py, generate_html_page: the Div of the first equation is
\* constructed, a list given under the keyword children
MathEquation ==
    /\ element' = math_equation
    /\ xml' = <<>>
    /\ pageCall' = PageCall("math_equation")
    /\ plots' = <<>>
    /\ UNCHANGED <<text, styleVars, genVars, appVars, shotVars>>

\* to_xml(P(text, style=dict_to_style(D)))
StyledParagraph ==
    \E D \in Dicts :
        /\ element' = styled_paragraph(text, D)
        /\ xml' = to_xml(element')
        /\ pageCall' = [PageCall("styled_paragraph") EXCEPT !.styles = D]
        /\ plots' = <<>>
        /\ UNCHANGED <<text, styleVars, genVars, appVars, shotVars>>

\* a page function is about to be called with a str
InitPages ==
    /\ text \in Texts
    /\ element = NoElement
    /\ xml = <<>>
    /\ pageCall = PageCall("none")
    /\ plots = <<>>
    /\ StyleIdle
    /\ GenIdle
    /\ AppIdle
    /\ ShotsIdle

NextPages ==
    \/ CallCard
    \/ CallStatCard
    \/ GetPyvistaError
    \/ GetSurfacePage
    \/ GenerateHtmlPage
    \/ MathEquation
    \/ StyledParagraph

SpecPages == InitPages /\ [][NextPages]_vars

---------------------------------------------------------------------------
(* Properties of the pages, checked under SpecPages *)

\* the places from from on where sub occurs in s
Occurrences(s, sub, from) ==
    {p \in from..(Len(s) - Len(sub) + 1) : SubSeq(s, p, p + Len(sub) - 1) = sub}

\* the texts subs occur in s one after the other, none overlapping the next
RECURSIVE InOrderFrom(_, _, _)
InOrderFrom(s, subs, from) ==
    IF subs = <<>> THEN TRUE
    ELSE LET at == Occurrences(s, Head(subs), from)
         IN /\ at # {}
            /\ InOrderFrom(s, Tail(subs),
                           (CHOOSE p \in at : \A q \in at : p <= q) + Len(Head(subs)))

InOrder(s, subs) == InOrderFrom(s, subs, 1)

\* the texts of an element's attributes and the outputs of its children, in
\* the order they were given at construction
GivenParts(node) ==
    [i \in DOMAIN node.attrs |-> <<" ", node.attrs[i][1], "=", "\"">>
                                  \o escape(node.attrs[i][2].v) \o <<"\"">>]
    \o [i \in DOMAIN node.children |-> to_xml(node.children[i])]

\* C12: the markup of an element has the element's attributes in the order
\* they were given and then its children's outputs in the order they were
\* given; the markup of a card has the title's heading and then the caller's
\* children in the order the caller gave them
SerializedInGivenOrder ==
    (element.kind = "element" /\ xml # <<>>) =>
        /\ InOrder(xml, GivenParts(element))
        /\ \A i \in DOMAIN element.children :
              element.children[i].kind = "element" =>
                  InOrder(to_xml(element.children[i]), GivenParts(element.children[i]))
        /\ pageCall.fn = "Card" =>
              InOrder(xml, << <<"<", "h3">>, escape(text), <<"</", "h3", ">">> >>
                           \o [i \in DOMAIN pageCall.children |->
                                  to_xml(pageCall.children[i])])
        /\ pageCall.fn = "stat_card" =>
              InOrder(xml, << <<"class">>, <<"style">>, <<"<", "h4">>, <<"<", "p">> >>)

\* a card was built with a title of markup-significant characters and two
\* children, the Div given before the paragraph
SerializedInGivenOrderWitness ==
    /\ pageCall.fn = "Card"
    /\ Len(text) = 2
    /\ Len(pageCall.children) = 2
    /\ pageCall.children[1].tag = "div"
    /\ xml # <<>>

\* the places of the piece c in s, in increasing order
Places(s, c) == {p \in DOMAIN s : s[p] = c}

\* the n-th smallest member of a set of numbers
Nth(S, n) == CHOOSE p \in S : Cardinality({q \in S : q < p}) = n - 1

\* the page functions that put the given str into the page as a text child
TextChildCalls == {"Card", "pyvista_error", "styled_paragraph"}

\* where in xml the output of that text child starts: in a card after the
\* opening tags of the Div and the H3, in the error page after "Error: ",
\* in a styled paragraph after the opening tag
LeafStart ==
    IF pageCall.fn = "Card" THEN Nth(Places(xml, ">"), 2) + 1
    ELSE IF pageCall.fn = "pyvista_error" THEN Nth(Places(xml, "Error: "), 1) + 1
    ELSE Nth(Places(xml, ">"), 1) + 1

\* the output of the text child: what xml has from there up to the next
\* closing tag
LeafOutput ==
    LET closing == {p \in Places(xml, "</") : p >= LeafStart}
    IN SubSeq(xml, LeafStart, Nth(closing, 1) - 1)

\* the tags of a markup text: its pieces that open or close a tag
Tags(s) == SelectSeq(s, LAMBDA c : c \in {"<", "</", ">"})

\* C13: a str given as a text child is emitted escaped: its output has none
\* of < > " ' and has & only at the start of an entity, un-escaping the
\* output gives the str back, and the page has four tag pieces (<, >, </, >)
\* for each closing tag, so the str introduces no markup
TextChildEscaped ==
    (pageCall.fn \in TextChildCalls) =>
        /\ \A p \in DOMAIN LeafOutput :
              /\ LeafOutput[p] \notin {"<", ">", "\"", "'"}
              /\ LeafOutput[p] = "&" =>
                    /\ p + 2 <= Len(LeafOutput)
                    /\ LeafOutput[p + 1] \in {"amp", "lt", "gt", "quot", "#x27"}
                    /\ LeafOutput[p + 2] = ";"
        /\ unescape(LeafOutput) = text
        /\ Len(Tags(xml)) = 4 * Cardinality(Places(xml, "</"))

\* the error page was built for an exception whose message is a tag's start
\* and end
TextChildEscapedWitness ==
    /\ pageCall.fn = "pyvista_error"
    /\ text = <<"<", ">">>
    /\ xml # <<>>

\* the sum of the lengths of the texts of a sequence
RECURSIVE TotalLen(_)
TotalLen(ss) == IF ss = <<>> THEN 0 ELSE Len(Head(ss)) + TotalLen(Tail(ss))

\* the opening tag of a Div with one attribute, and its closing tag
DivOpen(name, value) == <<"<", "div", " ", name, "=", "\"", value, "\"", ">">>

DivClose == <<"</", "div", ">">>

\* C14: a plot fragment wrapped in NotStr is emitted as it is: the markup of
\* the surface page's container is the container's tags around the very
\* fragment, and the markup of the prerendered page has the three fragments
\* unchanged, in order, each between the tags of its container
RawContentVerbatim ==
    /\ pageCall.fn = "surface_page" =>
          \E style \in {xml[7]} :
              xml = DivOpen("style", style) \o plots[1] \o DivClose
    /\ pageCall.fn = "generate_html_page" =>
          /\ InOrder(xml, << DivOpen("class", "container"),
                             DivOpen("class", "plot-container") \o plots[1] \o DivClose,
                             DivOpen("class", "plot-container") \o plots[2] \o DivClose,
                             DivOpen("class", "plot-container") \o plots[3] \o DivClose,
                             DivClose >>)
          /\ Len(xml) = TotalLen(plots) + 4 * (Len(DivOpen("class", "container")) + Len(DivClose))

\* the prerendered page was built from fragments that hold markup-significant
\* characters in the figure's data too
RawContentVerbatimWitness ==
    /\ pageCall.fn = "generate_html_page"
    /\ text = <<"&", "<">>
    /\ Len(plots) = 3
    /\ xml # <<>>

\* the attributes of an element whose value is not a str
NonStringAttrs(node) == {i \in DOMAIN node.attrs : node.attrs[i][2].type # "str"}

\* C15: constructing an element with an attribute whose value is not a
\* string, such as the list given under the keyword children, or with a
\* tag that is empty or only whitespace, fails with InvalidNodeError: the
\* call that builds the first equation's Div raises it, and no element
\* with such an attribute or tag is ever built
InvalidElementRejected ==
    /\ pageCall.fn = "math_equation" =>
          /\ pageCall.raised = "InvalidNodeError"
          /\ element = NoElement
    /\ element.kind = "element" =>
          /\ NonStringAttrs(element) = {}
          /\ element.tag \notin {"", " "}

\* the end-to-end example has been built: P("Hi & bye", style=dict_to_style(
\* {'color': 'red', 'font-size': '16px'}))
EndToEndExample ==
    /\ pageCall.fn = "styled_paragraph"
    /\ pageCall.styles = ExampleDict
    /\ text = HiBye

\* C16: the p element whose style is the inline style of (color: red,
\* font-size: 16px) and whose only child is the text 'Hi & bye' serializes
\* to exactly <p style="color: red; font-size: 16px;">Hi &amp; bye</p>
EndToEndMarkup ==
    EndToEndExample =>
        Text(xml) = "<p style=\"color: red; font-size: 16px;\">Hi &amp; bye</p>"

EndToEndMarkupWitness ==
    /\ EndToEndExample
    /\ Len(element.children) = 1
    /\ element.children[1].kind = "text"
    /\ xml # <<>>

\* the places in a markup text where a script is loaded from a remote URL:
\* src="https://..."
RemoteScripts(s) ==
    {p \in DOMAIN s : /\ s[p] = "src"
                      /\ p + 3 <= Len(s)
                      /\ s[p + 3] \in {PlotlyCdn}}

\* C19: the page generate_html_page produces works offline: no plot fragment
\* embedded in it, and so no part of the page, loads a script from a remote
\* URL
PageWorksOffline ==
    pageCall.fn = "generate_html_page" =>
        /\ \A i \in DOMAIN plots : RemoteScripts(plots[i]) = {}
        /\ RemoteScripts(xml) = {}

---------------------------------------------------------------------------
(* capture_screenshots.py: main and capture_screenshot *)

EXPERIMENTS ==
    << <<"01_inline_styles.py", "01_inline_styles.png">>,
       <<"02_global_styles.py", "02_global_styles.png">>,
       <<"03_dynamic_styles.py", "03_dynamic_styles.png">>,
       <<"04_style_dictionaries.py", "04_style_dictionaries.png">>,
       <<"05_component_styling.py", "05_component_styling.png">>,
       <<"06_css_class_generator.py", "06_css_class_generator.png">> >>

\* what capture_screenshots.py leaves alone
notShots == <<styleVars, genVars, appVars, pageVars>>

\* how a call ends: nothing decided yet, return value, or an exception that
\* propagates
NoPending == [kind |-> "none", value |-> FALSE]

Returning(value) == [kind |-> "return", value |-> value]

Raising == [kind |-> "raise", value |-> FALSE]

\* main: the loop calls capture_screenshot(script_name, output_name)
MainCall ==
    /\ mainPc = "loop"
    /\ idx \in DOMAIN EXPERIMENTS
    /\ mainPc' = "call"
    /\ shotPc' = "popen"
    /\ signals' = <<>>
    /\ timedOut' = FALSE
    /\ browser' = "none"
    /\ pending' = NoPending
    /\ UNCHANGED <<idx, servers, success_count, failed_experiments, files, notShots>>

\* process = subprocess.Popen(["python", script_name], ...): the server is
\* started, or Popen raises and the exception leaves main (no try is open)
Popen ==
    /\ shotPc = "popen"
    /\ \E ok \in BOOLEAN :
          IF ok
          THEN /\ servers' = [servers EXCEPT ![idx] = "running"]
               /\ shotPc' = "sleep"
               /\ UNCHANGED mainPc
          ELSE /\ shotPc' = "none"
               /\ mainPc' = "raised"
               /\ UNCHANGED servers
    /\ UNCHANGED <<idx, signals, timedOut, browser, pending, success_count,
                   failed_experiments, files, notShots>>

\* time.sleep(3)
Sleep ==
    /\ shotPc = "sleep"
    /\ shotPc' = "poll"
    /\ UNCHANGED <<mainPc, idx, servers, signals, timedOut, browser, pending,
                   success_count, failed_experiments, files, notShots>>

\* a running server process exits: it failed, or it was told to terminate
ServerExits ==
    /\ \E i \in DOMAIN servers :
          /\ servers[i] = "running"
          /\ servers' = [servers EXCEPT ![i] = "exited"]
    /\ UNCHANGED <<mainPc, idx, shotPc, signals, timedOut, browser, pending,
                   success_count, failed_experiments, files, notShots>>

\* mutant: the result of poll() is not looked at
Poll_ignoring_exit ==
    /\ shotPc = "poll"
    /\ shotPc' = "playwright"
    /\ UNCHANGED <<mainPc, idx, servers, signals, timedOut, browser, pending,
                   success_count, failed_experiments, files, notShots>>

\* if process.poll() is not None: ...; return False
Poll ==
    /\ shotPc = "poll"
    /\ IF servers[idx] = "exited"
       THEN /\ pending' = Returning(FALSE)
            /\ shotPc' = "finally"
       ELSE /\ shotPc' = "playwright"
            /\ UNCHANGED pending
    /\ UNCHANGED <<mainPc, idx, servers, signals, timedOut, browser,
                   success_count, failed_experiments, files, notShots>>

\* with sync_playwright() as p: Playwright starts, or an exception propagates
StartPlaywright ==
    /\ shotPc = "playwright"
    /\ \E ok \in BOOLEAN :
          IF ok
          THEN /\ shotPc' = "launch"
               /\ UNCHANGED pending
          ELSE /\ pending' = Raising
               /\ shotPc' = "finally"
    /\ UNCHANGED <<mainPc, idx, servers, signals, timedOut, browser,
                   success_count, failed_experiments, files, notShots>>

\* mutant: a failed launch is turned into return False
Launch_returning_false ==
    /\ shotPc = "launch"
    /\ \E ok \in BOOLEAN :
          IF ok
          THEN /\ browser' = "open"
               /\ shotPc' = "new_page"
               /\ UNCHANGED pending
          ELSE /\ pending' = Returning(FALSE)
               /\ shotPc' = "finally"
               /\ UNCHANGED browser
    /\ UNCHANGED <<mainPc, idx, servers, signals, timedOut,
                   success_count, failed_experiments, files, notShots>>

\* browser = p.chromium.launch(...): or an exception propagates
Launch ==
    /\ shotPc = "launch"
    /\ \E ok \in BOOLEAN :
          IF ok
          THEN /\ browser' = "open"
               /\ shotPc' = "new_page"
               /\ UNCHANGED pending
          ELSE /\ pending' = Raising
               /\ shotPc' = "finally"
               /\ UNCHANGED browser
    /\ UNCHANGED <<mainPc, idx, servers, signals, timedOut,
                   success_count, failed_experiments, files, notShots>>

\* page = browser.new_page(...): or an exception propagates; the inner try
\* has not been entered
NewPage ==
    /\ shotPc = "new_page"
    /\ \E ok \in BOOLEAN :
          IF ok
          THEN /\ shotPc' = "goto"
               /\ UNCHANGED pending
          ELSE /\ pending' = Raising
               /\ shotPc' = "finally"
    /\ UNCHANGED <<mainPc, idx, servers, signals, timedOut, browser,
                   success_count, failed_experiments, files, notShots>>

\* a step of the inner try fails: except Exception as e: ...; return False
PageStepFails ==
    /\ pending' = Returning(FALSE)
    /\ shotPc' = "close"
    /\ UNCHANGED files

\* page.goto(f"http://localhost:{port}", timeout=10000)
Goto ==
    /\ shotPc = "goto"
    /\ \E ok \in BOOLEAN :
          IF ok
          THEN /\ shotPc' = "wait_for_load_state"
               /\ UNCHANGED <<pending, files>>
          ELSE PageStepFails
    /\ UNCHANGED <<mainPc, idx, servers, signals, timedOut, browser,
                   success_count, failed_experiments, notShots>>

\* page.wait_for_load_state("networkidle", timeout=10000)
WaitForLoadState ==
    /\ shotPc = "wait_for_load_state"
    /\ \E ok \in BOOLEAN :
          IF ok
          THEN /\ shotPc' = "screenshot"
               /\ UNCHANGED <<pending, files>>
          ELSE PageStepFails
    /\ UNCHANGED <<mainPc, idx, servers, signals, timedOut, browser,
                   success_count, failed_experiments, notShots>>

\* page.screenshot(path=str(SCREENSHOTS_DIR / output_name), full_page=True)
Screenshot ==
    /\ shotPc = "screenshot"
    /\ \E ok \in BOOLEAN :
          IF ok
          THEN /\ files' = files \cup {EXPERIMENTS[idx][2]}
               /\ shotPc' = "close"
               /\ UNCHANGED pending
          ELSE PageStepFails
    /\ UNCHANGED <<mainPc, idx, servers, signals, timedOut, browser,
                   success_count, failed_experiments, notShots>>

\* finally: browser.close(); then the pending return False, or on to
\* return True; an exception raised by close() takes the place of a pending
\* return and propagates
CloseBrowser ==
    /\ shotPc = "close"
    /\ \E ok \in BOOLEAN :
          IF ok
          THEN /\ browser' = "closed"
               /\ pending' = IF pending.kind = "return" THEN pending
                             ELSE Returning(TRUE)
          ELSE /\ pending' = Raising
               /\ UNCHANGED browser
    /\ shotPc' = "finally"
    /\ UNCHANGED <<mainPc, idx, servers, signals, timedOut,
                   success_count, failed_experiments, files, notShots>>

\* mutant: the process is told to terminate and not waited for
Terminate_no_wait ==
    /\ shotPc = "finally"
    /\ signals' = Append(signals, "terminate")
    /\ shotPc' = "leave"
    /\ UNCHANGED <<mainPc, idx, servers, timedOut, browser, pending,
                   success_count, failed_experiments, files, notShots>>

\* finally: process.terminate()
Terminate ==
    /\ shotPc = "finally"
    /\ signals' = Append(signals, "terminate")
    /\ shotPc' = "wait_timeout"
    /\ UNCHANGED <<mainPc, idx, servers, timedOut, browser, pending,
                   success_count, failed_experiments, files, notShots>>

\* process.wait(timeout=5) returns: the process has exited
WaitReturns ==
    /\ shotPc = "wait_timeout"
    /\ servers[idx] = "exited"
    /\ shotPc' = "leave"
    /\ UNCHANGED <<mainPc, idx, servers, signals, timedOut, browser, pending,
                   success_count, failed_experiments, files, notShots>>

\* mutant: TimeoutExpired is passed over, the process is left as it is
WaitTimesOut_pass ==
    /\ shotPc = "wait_timeout"
    /\ servers[idx] = "running"
    /\ timedOut' = TRUE
    /\ shotPc' = "leave"
    /\ UNCHANGED <<mainPc, idx, servers, signals, browser, pending,
                   success_count, failed_experiments, files, notShots>>

\* process.wait(timeout=5) raises TimeoutExpired, the process still running
\* after 5 seconds: process.kill()
WaitTimesOut ==
    /\ shotPc = "wait_timeout"
    /\ servers[idx] = "running"
    /\ timedOut' = TRUE
    /\ signals' = Append(signals, "kill")
    /\ shotPc' = "wait"
    /\ UNCHANGED <<mainPc, idx, servers, browser, pending,
                   success_count, failed_experiments, files, notShots>>

\* process.wait() after the kill: returns once the process has exited
WaitAfterKill ==
    /\ shotPc = "wait"
    /\ servers' = [servers EXCEPT ![idx] = "exited"]
    /\ shotPc' = "leave"
    /\ UNCHANGED <<mainPc, idx, signals, timedOut, browser, pending,
                   success_count, failed_experiments, files, notShots>>

\* the finally block is through: the call returns its value to main, or the
\* exception propagates and leaves main
Leave ==
    /\ shotPc = "leave"
    /\ shotPc' = "none"
    /\ mainPc' = IF pending.kind = "return" THEN "returned" ELSE "raised"
    /\ UNCHANGED <<idx, servers, signals, timedOut, browser, pending,
                   success_count, failed_experiments, files, notShots>>

\* mutant: every call is counted as a success, a failed one listed as well
MainRecord_counting_every_call ==
    /\ mainPc = "returned"
    /\ success_count' = success_count + 1
    /\ failed_experiments' =
          IF pending.value THEN failed_experiments
          ELSE Append(failed_experiments, EXPERIMENTS[idx][1])
    /\ mainPc' = "sleep"
    /\ UNCHANGED <<idx, shotPc, servers, signals, timedOut, browser, pending,
                   files, notShots>>

\* main: if capture_screenshot(...): success_count += 1
\*       else: failed_experiments.append(script_name)
MainRecord ==
    /\ mainPc = "returned"
    /\ IF pending.value
       THEN /\ success_count' = success_count + 1
            /\ UNCHANGED failed_experiments
       ELSE /\ failed_experiments' = Append(failed_experiments, EXPERIMENTS[idx][1])
            /\ UNCHANGED success_count
    /\ mainPc' = "sleep"
    /\ UNCHANGED <<idx, shotPc, servers, signals, timedOut, browser, pending,
                   files, notShots>>

\* main: time.sleep(1), and on to the next experiment
MainSleep ==
    /\ mainPc = "sleep"
    /\ idx' = idx + 1
    /\ mainPc' = "loop"
    /\ UNCHANGED <<shotPc, servers, signals, timedOut, browser, pending,
                   success_count, failed_experiments, files, notShots>>

\* main: the loop is over, the summary is printed
Summary ==
    /\ mainPc = "loop"
    /\ idx = Len(EXPERIMENTS) + 1
    /\ mainPc' = "summary"
    /\ UNCHANGED <<idx, shotPc, servers, signals, timedOut, browser, pending,
                   success_count, failed_experiments, files, notShots>>

\* main() has been called
InitShots ==
    /\ mainPc = "loop"
    /\ idx = 1
    /\ shotPc = "none"
    /\ servers = [i \in DOMAIN EXPERIMENTS |-> "none"]
    /\ signals = <<>>
    /\ timedOut = FALSE
    /\ browser = "none"
    /\ pending = NoPending
    /\ success_count = 0
    /\ failed_experiments = <<>>
    /\ files = {}
    /\ StyleIdle
    /\ GenIdle
    /\ AppIdle
    /\ PagesIdle

NextShots ==
    \/ MainCall
    \/ Popen
    \/ Sleep
    \/ ServerExits
    \/ Poll
    \/ StartPlaywright
    \/ Launch
    \/ NewPage
    \/ Goto
    \/ WaitForLoadState
    \/ Screenshot
    \/ CloseBrowser
    \/ Terminate
    \/ WaitReturns
    \/ WaitTimesOut
    \/ WaitAfterKill
    \/ Leave
    \/ MainRecord
    \/ MainSleep
    \/ Summary

SpecShots == InitShots /\ [][NextShots]_vars

---------------------------------------------------------------------------
(* Properties of capture_screenshots.py, checked under SpecShots *)

\* the running capture_screenshot call has ended: it returned to main or its
\* exception left main
CallEnded == mainPc \in {"returned", "raised"}

\* C17: every capture_screenshot call stops the server it started: when the
\* call has returned or raised, on whichever path, terminate has been called
\* on the process and the process has exited, and kill was called only
\* after terminate and only when wait(timeout=5) had timed out; while no
\* call runs, no server runs
ServerStoppedOnEveryExit ==
    /\ (CallEnded /\ servers[idx] # "none") =>
          /\ servers[idx] = "exited"
          /\ signals \in {<<"terminate">>, <<"terminate", "kill">>}
          /\ (signals = <<"terminate", "kill">>) <=> timedOut
    /\ shotPc = "none" => \A i \in DOMAIN servers : servers[i] # "running"
    /\ \A i \in DOMAIN signals : signals[i] = "kill" => (timedOut /\ i = 2)

\* a call has returned True after a screenshot was taken and the server,
\* still running 5 seconds after terminate, was killed
ServerStoppedOnEveryExitWitness ==
    /\ mainPc = "returned"
    /\ pending = Returning(TRUE)
    /\ EXPERIMENTS[idx][2] \in files
    /\ signals = <<"terminate", "kill">>
    /\ servers[idx] = "exited"

Running == {i \in DOMAIN servers : servers[i] = "running"}

\* C18: main handles the experiments one after another in list order: the
\* only server that can be running is that of the experiment main is at,
\* inside its capture_screenshot call; the servers of all experiments before
\* it have exited and those of the experiments after it have not been
\* started, so no two servers ever run at once
OneServerAtATime ==
    /\ Cardinality(Running) <= 1
    /\ \A i \in Running : i = idx /\ mainPc = "call" /\ shotPc # "none"
    /\ \A i \in DOMAIN servers :
          /\ i < idx => servers[i] = "exited"
          /\ i > idx => servers[i] = "none"

\* the server of the third experiment runs, the first two have been handled
\* and their servers have exited
OneServerAtATimeWitness ==
    /\ idx = 3
    /\ servers[3] = "running"
    /\ servers[1] = "exited"
    /\ servers[2] = "exited"
    /\ success_count + Len(failed_experiments) = 2
    /\ shotPc = "goto"

---------------------------------------------------------------------------
(* The copies of the declaration serializer: dict_to_style of
   04_style_dictionaries.py, CSSGenerator.to_css of 06_css_class_generator.py
   and the style strings of StyledComponents in 05_component_styling.py *)

\* d.get(k, default)
get_default(d, k, default) == IF k \in keys(d) THEN get(d, k) ELSE default

\* StyledComponents.Button: variants
Button_variants ==
    << <<"primary", << <<"bg", "#3b82f6">>, <<"hover", "#2563eb">> >> >>,
       <<"success", << <<"bg", "#10b981">>, <<"hover", "#059669">> >> >>,
       <<"danger", << <<"bg", "#ef4444">>, <<"hover", "#dc2626">> >> >>,
       <<"outline", << <<"bg", "transparent">>,
                       <<"border", "2px solid #3b82f6">>,
                       <<"color", "#3b82f6">> >> >> >>

\* StyledComponents.Button: sizes
Button_sizes ==
    << <<"small", << <<"padding", "8px 16px">>, <<"font-size", "14px">> >> >>,
       <<"medium", << <<"padding", "12px 24px">>, <<"font-size", "16px">> >> >>,
       <<"large", << <<"padding", "16px 32px">>, <<"font-size", "18px">> >> >> >>

\* StyledComponents.Button: style, with
\* var = variants.get(variant, variants['primary']) and
\* sz = sizes.get(size, sizes['medium'])
Button_style(variant, size) ==
    LET var == get_default(Button_variants, variant, get(Button_variants, "primary"))
        sz == get_default(Button_sizes, size, get(Button_sizes, "medium"))
    IN << <<"background-color", get(var, "bg")>>,
          <<"color", get_default(var, "color", "white")>>,
          <<"padding", get(sz, "padding")>>,
          <<"font-size", get(sz, "font-size")>>,
          <<"border", get_default(var, "border", "none")>>,
          <<"border-radius", "8px">>,
          <<"font-weight", "600">>,
          <<"cursor", "pointer">>,
          <<"transition", "all 0.3s ease">>,
          <<"margin", "5px">> >>

\* StyledComponents.Button:
\* style_str = "; ".join(f"{k}: {v}" for k, v in style.items()) + ";"
Button_style_str(variant, size) ==
    LET style == Button_style(variant, size)
    IN join(<<";", " ">>,
            [i \in DOMAIN style |-> <<style[i][1], ":", " ", style[i][2]>>])
       \o <<";">>

\* StyledComponents.Card: card_style
Card_style(variant) == dict_display(Card_base_style, Card_variant(variant))

\* the name the i-th declaration is registered under
class_name_of(i) == "c" \o ToString(i)

\* gen = CSSGenerator(); gen.add_class(name_i, **Di) for each declaration
RECURSIVE registered(_, _)
registered(ds, n) ==
    IF n = 0 THEN <<>>
    ELSE add_class(registered(ds, n - 1), class_name_of(n),
                   bind_kwargs(<<>>, ds[n]).styles)

\* gen.to_css() after the caller's declarations were registered one by one
CallToCss ==
    /\ out' = to_css(registered([i \in DOMAIN inputs |-> heap[inputs[i]]],
                                Len(inputs)))
    /\ lastCall' = [fn |-> "to_css", args |-> inputs, styled |-> <<>>,
                    calls |-> <<>>]
    /\ UNCHANGED <<heap, results, response, source0, inputs, genVars, otherVars>>

ButtonVariants == {"primary", "outline", "ghost"}
ButtonSizes == {"small", "huge"}

\* the style string StyledComponents.Card builds for its Div
CallCardStyle ==
    \E variant \in CardVariants :
        /\ out' = Card_style_str(variant)
        /\ lastCall' = [fn |-> "Card", args |-> <<>>,
                        styled |-> Card_style(variant), calls |-> <<>>]
        /\ UNCHANGED <<heap, results, response, source0, inputs, genVars, otherVars>>

\* the style string StyledComponents.Button builds for its Button
CallButtonStyle ==
    \E variant \in ButtonVariants, size \in ButtonSizes :
        /\ out' = Button_style_str(variant, size)
        /\ lastCall' = [fn |-> "Button", args |-> <<>>,
                        styled |-> Button_style(variant, size), calls |-> <<>>]
        /\ UNCHANGED <<heap, results, response, source0, inputs, genVars, otherVars>>

NextCopies ==
    \/ CallDictToStyle
    \/ CallToCss
    \/ CallCardStyle
    \/ CallButtonStyle

SpecCopies == InitStyle /\ [][NextCopies]_vars

\* line i of a text, the lines being separated by "\n"
LineOf(s, i) ==
    LET nl == Places(s, "\n")
        lo == IF i = 1 THEN 1 ELSE Nth(nl, i - 1) + 1
        hi == IF i > Cardinality(nl) THEN Len(s) ELSE Nth(nl, i) - 1
    IN SubSeq(s, lo, hi)

\* what stands between the first "{" and the last "}" of a line
BetweenBraces(line) ==
    LET open == Nth(Places(line, "{"), 1)
        close == Nth(Places(line, "}"), Cardinality(Places(line, "}")))
    IN SubSeq(line, open + 1, close - 1)

\* s without the spaces at its two ends
RECURSIVE strip(_)
strip(s) ==
    IF s # <<>> /\ Head(s) = " " THEN strip(Tail(s))
    ELSE IF s # <<>> /\ s[Len(s)] = " " THEN strip(SubSeq(s, 1, Len(s) - 1))
    ELSE s

\* C21: the copies of the declaration serializer agree: for every non-empty
\* declaration D registered with a generator, what to_css puts between the
\* braces of D's block, without the spaces around it, is dict_to_style(D);
\* the style strings StyledComponents.Card and StyledComponents.Button build
\* from their card_style and style dicts are dict_to_style of those dicts
SerializerCopiesAgree ==
    /\ lastCall.fn = "to_css" =>
          \A i \in DOMAIN inputs :
              InputDicts[i] # <<>> =>
                  Text(strip(BetweenBraces(LineOf(out, i))))
                      = Text(dict_to_style(InputDicts[i]))
    /\ lastCall.fn \in {"Card", "Button"} =>
          /\ lastCall.styled # <<>>
          /\ Text(out) = Text(dict_to_style(lastCall.styled))

\* two declarations registered, the second the two-property example
SerializerCopiesAgreeWitness ==
    /\ lastCall.fn = "to_css"
    /\ Len(inputs) = 2
    /\ InputDicts[2] = ExampleDict
    /\ InputDicts[1] # <<>>
    /\ Text(LineOf(out, 2)) = ".c2 { color: red; font-size: 16px; }"
    /\ Text(strip(BetweenBraces(LineOf(out, 2)))) = "color: red; font-size: 16px;"

\* the scripts of the experiments main has recorded a result for
Recorded == 1..(IF mainPc = "sleep" THEN idx ELSE idx - 1)

\* C22: main attempts each experiment once, in list order, and records each
\* call's result once: a call that returned True adds one to success_count,
\* a call that returned False appends its script to failed_experiments, and
\* nothing else changes either; so success_count + len(failed_experiments)
\* is the number of experiments recorded so far, and at the summary it is
\* len(EXPERIMENTS), with failed_experiments free of repetitions
SummaryAccountsForEveryExperiment ==
    /\ [](/\ success_count + Len(failed_experiments) = Cardinality(Recorded)
          /\ \A i, j \in DOMAIN failed_experiments :
                failed_experiments[i] = failed_experiments[j] => i = j
          /\ \A i \in DOMAIN failed_experiments :
                \E e \in Recorded : failed_experiments[i] = EXPERIMENTS[e][1]
          /\ mainPc = "summary" =>
                /\ success_count + Len(failed_experiments) = Len(EXPERIMENTS)
                /\ \A e \in DOMAIN EXPERIMENTS : servers[e] = "exited")
    /\ [][/\ (mainPc = "returned" /\ mainPc' # "returned") =>
                IF pending.value
                THEN /\ success_count' = success_count + 1
                     /\ failed_experiments' = failed_experiments
                ELSE /\ success_count' = success_count
                     /\ failed_experiments' =
                           Append(failed_experiments, EXPERIMENTS[idx][1])
          /\ mainPc # "returned" =>
                /\ success_count' = success_count
                /\ failed_experiments' = failed_experiments
          /\ (mainPc # "call" /\ mainPc' = "call") =>
                /\ idx' = idx
                /\ servers[idx] = "none"
          /\ idx' # idx => (idx' = idx + 1 /\ mainPc = "sleep")]_vars

\* the summary after four captures and two failures, the second and the
\* fifth experiment
SummaryAccountsForEveryExperimentWitness ==
    /\ mainPc = "summary"
    /\ success_count = 4
    /\ failed_experiments = <<EXPERIMENTS[2][1], EXPERIMENTS[5][1]>>
    /\ Cardinality(files) = 4

\* the steps of the inner try: an exception of theirs is caught
PageSteps == {"goto", "wait_for_load_state", "screenshot"}

\* the steps before the inner try, and browser.close() in its finally: an
\* exception of theirs is not caught
UncaughtSteps == {"playwright", "launch", "new_page", "close"}

\* C23: of the exceptions of the Playwright steps only those of page.goto,
\* page.wait_for_load_state and page.screenshot become a return False (the
\* one other return False is that of the poll that found the server
\* exited); an exception raised while Playwright is started or the browser
\* launched propagates: the finally block stops the server, the exception
\* leaves capture_screenshot and main, no result is recorded for the
\* experiment, no later experiment is attempted and the summary is not
\* reached
OnlyPageFailuresReturnFalse ==
    /\ [](mainPc = "raised" =>
            /\ servers[idx] # "running"
            /\ servers[idx] = "exited" =>
                  (pending = Raising /\ signals # <<>> /\ signals[1] = "terminate")
            /\ \A e \in DOMAIN EXPERIMENTS : e > idx => servers[e] = "none"
            /\ success_count + Len(failed_experiments) = idx - 1)
    /\ [][/\ mainPc # "raised"
          /\ (pending' = Returning(FALSE) /\ pending # Returning(FALSE)) =>
                \/ shotPc \in PageSteps
                \/ shotPc = "poll" /\ servers[idx] = "exited"
          /\ (shotPc \in {"playwright", "launch"} /\ shotPc' = "finally") =>
                pending' = Raising
          /\ (pending' = Raising /\ pending # Raising) => shotPc \in UncaughtSteps
          /\ pending = Raising =>
                /\ pending' = Raising
                /\ mainPc' \in {"call", "raised"}
                /\ shotPc' \in {"wait_timeout", "wait", "leave", "none"}
                       \/ shotPc' = shotPc]_vars

\* the launch of the browser failed in the third experiment: the server was
\* stopped, main has ended with two results recorded and three experiments
\* never attempted
OnlyPageFailuresReturnFalseWitness ==
    /\ mainPc = "raised"
    /\ idx = 3
    /\ pending = Raising
    /\ browser = "none"
    /\ servers[3] = "exited"
    /\ signals = <<"terminate">>
    /\ servers[4] = "none"
    /\ Len(failed_experiments) = 1
    /\ success_count = 1

\* the finally block of the outer try and the way out of the call
Finalising == {"finally", "wait_timeout", "wait", "leave", "none"}

\* C24: a poll that finds the server process exited makes the call return
\* False at once: no browser has been launched, none is launched afterwards
\* and no screenshot file is written for the experiment; and whenever
\* capture_screenshot returns, True or False, a browser it launched has been
\* closed
EarlyExitWithoutBrowser ==
    /\ []((mainPc = "returned") =>
            /\ browser \in {"none", "closed"}
            /\ browser = "none" =>
                  /\ pending = Returning(FALSE)
                  /\ EXPERIMENTS[idx][2] \notin files
            /\ pending = Returning(TRUE) =>
                  /\ browser = "closed"
                  /\ EXPERIMENTS[idx][2] \in files)
    /\ [][/\ (shotPc = "poll" /\ servers[idx] = "exited") =>
                /\ pending' = Returning(FALSE)
                /\ shotPc' = "finally"
                /\ browser = "none"
          /\ (shotPc \in Finalising /\ mainPc' = mainPc) =>
                /\ shotPc' \in Finalising
                /\ browser' = browser
                /\ files' = files
                /\ pending' = pending
          /\ (shotPc = "poll" /\ shotPc' = "playwright") =>
                servers[idx] = "running"]_vars

\* the server had exited before the poll: the call has returned False with
\* no browser and no file, the process terminated all the same
EarlyExitWithoutBrowserWitness ==
    /\ mainPc = "returned"
    /\ pending = Returning(FALSE)
    /\ browser = "none"
    /\ files = {}
    /\ servers[idx] = "exited"
    /\ signals = <<"terminate">>
    /\ idx = 1

---------------------------------------------------------------------------
(* Re-registration and snapshots of the generator *)

\* the k-th line of a text
LineAt(L, k) == (CHOOSE p \in L : p[1] = k)[2]

\* C25: an add_class call for a name that is already registered leaves every
\* block of to_css where it was: css_lines, the blocks to_css joins with
\* line breaks, has the same number of blocks after the call as before, the
\* same name at every place and every block of another name unchanged, and
\* at the name's place stands the block of the new declaration
ReRegistrationKeepsPlace ==
    [][(/\ lastOp'.op = "add_class"
        /\ lastOp'.raised = ""
        /\ lastOp'.name \in keys(classes)) =>
          \E before \in {css_lines(classes)} :
          \E after \in {css_lines(classes')} :
             /\ Len(after) = Len(before)
             /\ \A k \in DOMAIN before :
                   /\ BlockName(after[k]) = BlockName(before[k])
                   /\ BlockName(before[k]) # lastOp'.name
                         => after[k] = before[k]
                   /\ BlockName(before[k]) = lastOp'.name
                         => after[k] = css_line(lastOp'.name,
                                                lastOp'.kw \o lastOp'.mapping)]_vars

\* "card", registered fourth of five by generate_component_classes, is
\* registered again with another declaration: its block is still the fourth
\* and holds the new declaration, the block of "badge" still follows it
ReRegistrationKeepsPlaceWitness ==
    /\ lastOp.op = "to_css"
    /\ Len(log) = 6
    /\ log[4].name = "card"
    /\ log[6].name = "card"
    /\ log[6].styles = << <<"color", "red">> >>
    /\ Text(LineAt(RankedLines(css), 4)) = ".card { color: red; }"
    /\ BlockName(LineAt(RankedLines(css), 5)) = "badge"

\* the methods that register classes
RegisteringOps == {"add_class", "add_utility_classes",
                   "generate_responsive_classes", "generate_component_classes"}

\* C26: the text to_css returned and the style tag get_style_tag returned
\* are snapshots: a later call that registers classes changes neither, only
\* another to_css or get_style_tag call gives a new text; so after
\* get_style_tag an add_class call for a new name makes len(classes) one
\* larger while the style tag, unchanged, has no block for that name and is
\* no longer the to_css of the generator
StylesheetIsSnapshot ==
    [][/\ lastOp'.op \in RegisteringOps =>
             /\ styleTag' = styleTag
             /\ css' = css
       /\ styleTag' # styleTag => lastOp'.op = "get_style_tag"
       /\ css' # css => lastOp'.op = "to_css"
       /\ (/\ lastOp'.op = "add_class"
           /\ lastOp'.raised = ""
           /\ styleTag.tag = "style"
           /\ lastOp'.name \notin keys(classes)) =>
             /\ Len(classes') = Len(classes) + 1
             /\ lastOp'.name \in keys(classes')
             /\ Occurrences(styleTag'.content,
                            <<".", lastOp'.name, " ", "{">>, 1) = {}
             /\ styleTag'.content # to_css(classes')]_vars

\* the style tag was taken after add_utility_classes, then "card" was
\* registered: 36 classes are counted, the tag has the 35 blocks it had
StylesheetIsSnapshotWitness ==
    /\ lastOp.op = "add_class"
    /\ lastOp.name = "card"
    /\ lastOp.raised = ""
    /\ styleTag.tag = "style"
    /\ Len(classes) = Len(utility_calls) + 1
    /\ Cardinality(Places(styleTag.content, "\n")) = Len(utility_calls) - 1
    /\ Occurrences(styleTag.content, <<".", "card", " ", "{">>, 1) = {}
    /\ Occurrences(to_css(classes), <<".", "card", " ", "{">>, 1) # {}

---------------------------------------------------------------------------
(* compare_all_packages.py: the four plot functions and the comparison page.
   text is the message of an exception a library call raises; plots holds
   the calls generate_comparison_html has made so far, each with how its try
   block went and what the call returned *)

\* how the try block of a plot function goes: it runs through, an import in
\* it fails, or a call into the library raises an Exception
Outcomes == {"ok", "ImportError", "Exception"}

\* str(e) of the exception caught: the import's message, or the library's
str_e(outcome, module, e) ==
    IF outcome = "ImportError" THEN <<"No module named '", module, "'">> ELSE e

\* f'<div style="color: red;">{label} Error: {str(e)}{note}</div>'
error_div(label, e, note) ==
    <<"<div style=\"color: red;\">", label, " Error: ">> \o e \o note \o <<"</div>">>

\* generate_plotly_plot(): fig.to_html(...), or the error div
generate_plotly_plot(outcome, e) ==
    [raised |-> "",
     ret |-> IF outcome = "ok" THEN to_html(<<"Z">>, "cdn", "plotly-plot")
             ELSE error_div("Plotly", str_e(outcome, "plotly", e), <<>>)]

\* generate_bokeh_plot(): the script tag, script and div of components(p),
\* or the error div
generate_bokeh_plot(outcome, e) ==
    [raised |-> "",
     ret |-> IF outcome = "ok"
             THEN <<"<script src=\"https://cdn.bokeh.org/bokeh/release/bokeh-3.3.0.min.js\"></script>",
                    "\n", "bokeh-script", "\n", "bokeh-div">>
             ELSE error_div("Bokeh", str_e(outcome, "bokeh", e), <<>>)]

\* mutant: only a failed import is caught
generate_pyvista_plot_catching_import_only(outcome, e) ==
    IF outcome = "ok" THEN [raised |-> "", ret |-> <<"pyvista-html">>]
    ELSE IF outcome = "ImportError"
    THEN [raised |-> "",
          ret |-> error_div("PyVista", str_e(outcome, "pyvista", e),
                            <<"<br>Note: PyVista requires display/graphics support">>)]
    ELSE [raised |-> outcome, ret |-> <<>>]

\* generate_pyvista_plot(): what plotter.export_html returned, or the error
\* div
generate_pyvista_plot(outcome, e) ==
    [raised |-> "",
     ret |-> IF outcome = "ok" THEN <<"pyvista-html">>
             ELSE error_div("PyVista", str_e(outcome, "pyvista", e),
                            <<"<br>Note: PyVista requires display/graphics support">>)]

\* generate_matplotlib_plot(): html_str + static_3d, or the error div
generate_matplotlib_plot(outcome, e) ==
    [raised |-> "",
     ret |-> IF outcome = "ok"
             THEN <<"mpld3-html",
                    "<div style=\"margin-top: 20px;\"><img src=\"data:image/png;base64,",
                    "img_str",
                    "\" style=\"max-width: 100%; height: auto;\" /></div>">>
             ELSE error_div("Matplotlib", str_e(outcome, "matplotlib", e), <<>>)]

\* the plot functions in the order generate_comparison_html calls them
plot_functions ==
    <<"generate_plotly_plot", "generate_bokeh_plot", "generate_pyvista_plot",
      "generate_matplotlib_plot">>

\* one plot card of html_template: its comment, heading and plot container
\* (the pros and cons under the container are left out)
plot_card(comment, heading, plot_html) ==
    <<"<!-- ", comment, " -->", "\n", "<div class=\"plot-card\">", "\n",
      "<h2>", heading, "</h2>", "\n", "<div class=\"plot-container\">", "\n">>
    \o plot_html
    \o <<"\n", "</div>", "\n", "</div>", "\n">>

\* html_template: the head, the four plot cards in the template's order,
\* the end of the page
html_template(plotly_html, bokeh_html, pyvista_html, matplotlib_html) ==
    <<"<!DOCTYPE html>", "\n", "<html lang=\"en\">", "\n",
      "<div class=\"comparison-grid\">", "\n">>
    \o plot_card("Plotly", "1. Plotly", plotly_html)
    \o plot_card("PyVista", "2. PyVista", pyvista_html)
    \o plot_card("Bokeh", "3. Bokeh", bokeh_html)
    \o plot_card("Matplotlib + mpld3", "4. Matplotlib + mpld3", matplotlib_html)
    \o <<"</div>", "\n", "</html>">>

\* generate_comparison_html: the next of its four calls, plotly_html =
\* generate_plotly_plot() to matplotlib_html = generate_matplotlib_plot();
\* an exception a call lets through ends generate_comparison_html
GeneratePlot ==
    /\ pageCall = PageCall("none")
    /\ Len(plots) < Len(plot_functions)
    /\ \E outcome \in Outcomes :
       \E fn \in {plot_functions[Len(plots) + 1]} :
       \E r \in {CASE fn = "generate_plotly_plot" -> generate_plotly_plot(outcome, text)
                   [] fn = "generate_bokeh_plot" -> generate_bokeh_plot(outcome, text)
                   [] fn = "generate_pyvista_plot" -> generate_pyvista_plot(outcome, text)
                   [] OTHER -> generate_matplotlib_plot(outcome, text)} :
          IF r.raised = ""
          THEN /\ plots' = Append(plots, [fn |-> fn, outcome |-> outcome, ret |-> r.ret])
               /\ UNCHANGED pageCall
          ELSE /\ pageCall' = [PageCall("generate_comparison_html")
                                   EXCEPT !.raised = r.raised]
               /\ UNCHANGED plots
    /\ UNCHANGED <<text, element, xml, styleVars, genVars, appVars, shotVars>>

\* generate_comparison_html: html_template is built and returned
ReturnTemplate ==
    /\ pageCall = PageCall("none")
    /\ Len(plots) = Len(plot_functions)
    /\ xml' = html_template(plots[1].ret, plots[2].ret, plots[3].ret, plots[4].ret)
    /\ pageCall' = PageCall("generate_comparison_html")
    /\ UNCHANGED <<text, element, plots, styleVars, genVars, appVars, shotVars>>

\* generate_comparison_html() has been called
InitCompare == InitPages

NextCompare ==
    \/ GeneratePlot
    \/ ReturnTemplate

SpecCompare == InitCompare /\ [][NextCompare]_vars

\* the name an error div gives the library of a plot function
LibraryLabel(fn) ==
    CASE fn = "generate_plotly_plot" -> "Plotly"
      [] fn = "generate_bokeh_plot" -> "Bokeh"
      [] fn = "generate_pyvista_plot" -> "PyVista"
      [] OTHER -> "Matplotlib"

\* the start of every error div
ErrorDivOpen == "<div style=\"color: red;\">"

\* C27: each of the four plot functions returns however its try block
\* goes: when an import or a library call in it raises an Exception the
\* call returns an error div that names the function's library and carries
\* the exception's message, otherwise what its library produced and no
\* error div; no call lets an exception through, so generate_comparison_html does
\* not raise, makes all four calls and returns a page with the four plot
\* cards, Plotly, PyVista, Bokeh, Matplotlib, each holding what its function
\* returned
EveryPlotFunctionReturnsText ==
    /\ pageCall.raised = ""
    /\ \A i \in DOMAIN plots :
          /\ plots[i].fn = plot_functions[i]
          /\ plots[i].ret # <<>>
          /\ IF plots[i].outcome = "ok"
             THEN plots[i].ret[1] # ErrorDivOpen
             ELSE /\ SubSeq(plots[i].ret, 1, 3)
                       = <<ErrorDivOpen, LibraryLabel(plots[i].fn), " Error: ">>
                  /\ plots[i].ret[Len(plots[i].ret)] = "</div>"
                  /\ plots[i].outcome = "Exception" =>
                        SubSeq(plots[i].ret, 4, 3 + Len(text)) = text
    /\ pageCall.fn = "generate_comparison_html" =>
          /\ Len(plots) = Len(plot_functions)
          /\ InOrder(xml, << <<"<h2>", "1. Plotly", "</h2>">>, plots[1].ret,
                             <<"<h2>", "2. PyVista", "</h2>">>, plots[3].ret,
                             <<"<h2>", "3. Bokeh", "</h2>">>, plots[2].ret,
                             <<"<h2>", "4. Matplotlib + mpld3", "</h2>">>,
                             plots[4].ret >>)
          /\ Cardinality(Places(xml, "<div class=\"plot-card\">")) = Len(plot_functions)

\* plotly is not installed and a PyVista call raised: the page has the two
\* error divs in their cards beside the plots of Bokeh and Matplotlib
EveryPlotFunctionReturnsTextWitness ==
    /\ pageCall.fn = "generate_comparison_html"
    /\ plots[1].outcome = "ImportError"
    /\ plots[2].outcome = "ok"
    /\ plots[3].outcome = "Exception"
    /\ plots[4].outcome = "ok"
    /\ text = <<"&", "<">>
    /\ InOrder(xml, << <<ErrorDivOpen, "Plotly", " Error: ", "No module named '",
                         "plotly", "'", "</div>">>,
                       <<ErrorDivOpen, "PyVista", " Error: ", "&", "<",
                         "<br>Note: PyVista requires display/graphics support",
                         "</div>">>,
                       <<"bokeh-div">>, <<"mpld3-html">> >>)

====
